---- MODULE Spec2Model ----
(***************************************************************************)
(* Model of aws-resource-optimizer: the three scanners (EC2, RDS, EBS),    *)
(* their shared base class, the configuration loader and the main()        *)
(* pipeline that aggregates the findings and hands a report to a reporter. *)
(*                                                                         *)
(* Conventions                                                             *)
(*  - Money is kept in units of 1e-4 USD, so that every rate of the static *)
(*    price tables and every product the code forms is an exact integer    *)
(*    (0.0116 USD/h = 116, 0.125 USD/GB = 1250).  Floating point rounding  *)
(*    is not modelled.                                                     *)
(*  - A mean is kept as the exact fraction sum/len.                        *)
(*  - A Python call that may raise is an operator returning a record with  *)
(*    a field "raised"; try/except is a test of that field.                *)
(***************************************************************************)
EXTENDS Integers, Sequences, FiniteSets, TLC

\* ------------------------------------------------------------------------
\* Bounds of the model
\* ------------------------------------------------------------------------
\* longest metric sequence the metrics source returns
MaxSamples == 2
\* largest sample value (percent, connections or operations)
MaxSample == 6
\* resources analysed in one run of main() (all scanners together)
MaxResources == 3
\* largest numeric value a configuration document gives a key
MaxConfigValue == 150
\* get_client calls made on one client manager
MaxClientCalls == 3
\* largest sample value a utilization rule is applied to on its own
MaxRuleSample == 11
\* longest tag list of a resource and longest exclude_tags list
MaxTags == 2
\* largest volume size (GB) the volume price is computed for
MaxPricedSize == 8
\* longest list of findings a report is rendered for on its own
MaxReportFindings == 3

\* ------------------------------------------------------------------------
\* Generic helpers
\* ------------------------------------------------------------------------
RECURSIVE SumSeq(_)
\* Python sum() over a list of numbers
SumSeq(s) == IF s = <<>> THEN 0 ELSE Head(s) + SumSeq(Tail(s))

\* dict.get(key, default)
Get(d, key, default) == IF key \in DOMAIN d THEN d[key] ELSE default

\* membership of a Python list
InList(x, list) == \E i \in 1..Len(list) : list[i] = x

\* exact fraction num/den, den > 0
Frac(num, den) == [num |-> num, den |-> den]
\* variant: a statistic equal to the limit counts as below it
FracLessOrEqual(f, n) == f.num <= n * f.den
\* f < n
FracLess(f, n) == f.num < n * f.den
FracIsZero(f) == f.num = 0
FracLeq(f, g) == f.num * g.den <= g.num * f.den

\* sum(values) / len(values) of a non-empty list
Mean(values) == Frac(SumSeq(values), Len(values))

\* severity order low < medium < high
SeverityRank(sev) == CASE sev = "low" -> 1 [] sev = "medium" -> 2 [] sev = "high" -> 3

\* outcome of a call: normal return of a list of findings, or an exception
Return(fs, fetched) == [raised |-> FALSE, findings |-> fs, fetched |-> fetched]
Raise(fetched) == [raised |-> TRUE, findings |-> <<>>, fetched |-> fetched]

\* ------------------------------------------------------------------------
\* BaseScanner
\* ------------------------------------------------------------------------
\* hours_per_month default of calculate_cost_savings
HoursPerMonth == 730
\* fallback hourly rate (0.05 USD) of calculate_cost_savings
DefaultHourlyRate == 500
\* fallback per-GB rate (0.10 USD) of _calculate_volume_cost
DefaultPricePerGb == 1000

\* cost_map of calculate_cost_savings, hourly rates in 1e-4 USD
cost_map ==
  [ec2 |-> ("t2.micro" :> 116) @@ ("t2.small" :> 230) @@ ("t2.medium" :> 464) @@
           ("t3.micro" :> 104) @@ ("t3.small" :> 208) @@ ("t3.medium" :> 416) @@
           ("m5.large" :> 960) @@ ("m5.xlarge" :> 1920),
   rds |-> ("db.t3.micro" :> 170) @@ ("db.t3.small" :> 340) @@ ("db.t3.medium" :> 680) @@
           ("db.m5.large" :> 1920) @@ ("db.m5.xlarge" :> 3840)]

\* variant: a resource type without a table is priced from the ec2 table
calculate_cost_savingsAnyKind(resource_type, instance_type) ==
  LET hourly_rate == Get(Get(cost_map, resource_type, cost_map.ec2), instance_type,
                         DefaultHourlyRate)
  IN  hourly_rate * HoursPerMonth

calculate_cost_savings(resource_type, instance_type) ==
  LET hourly_rate == Get(Get(cost_map, resource_type, <<>>), instance_type, DefaultHourlyRate)
  IN  hourly_rate * HoursPerMonth

\* str(exclude_value): a configured value is [type, repr]; a YAML string is
\* itself, a YAML integer becomes its decimal text
Str(v) == v.repr

\* variant: a key+value entry matches on the key alone
TagMatchesEntryKeyOnly(tag, exclude_tag) ==
  IF exclude_tag.is_dict
  THEN \E i \in 1..Len(exclude_tag.items) : tag.Key = exclude_tag.items[i].key
  ELSE tag.Key = exclude_tag.key

\* one exclude_tags entry against one tag
TagMatchesEntry(tag, exclude_tag) ==
  IF exclude_tag.is_dict
  THEN \E i \in 1..Len(exclude_tag.items) :
          /\ tag.Key = exclude_tag.items[i].key
          /\ tag.Value = Str(exclude_tag.items[i].value)
  ELSE tag.Key = exclude_tag.key

should_exclude_resource(tags, config) ==
  LET exclude_tags == Get(config, "exclude_tags", <<>>)
  IN  \E t \in 1..Len(tags) : \E e \in 1..Len(exclude_tags) :
         TagMatchesEntry(tags[t], exclude_tags[e])

create_finding(resource_id, resource_type, issue_type, monthly_savings, severity, scanner) ==
  [resource_id |-> resource_id, resource_type |-> resource_type,
   issue_type |-> issue_type, monthly_savings |-> monthly_savings,
   severity |-> severity, scanner |-> scanner]

\* The body of the try block of get_cloudwatch_metrics: obtaining the
\* cloudwatch client, calling get_metric_statistics and reading the
\* datapoints may each raise; otherwise the list of values is returned.
FetchDatapoints(outcome) ==
  IF outcome.kind = "ok"
  THEN [raised |-> FALSE, values |-> outcome.values]
  ELSE [raised |-> TRUE, values |-> <<>>]

\* variant: the except clause lets the exception through
get_cloudwatch_metricsReraise(outcome) == FetchDatapoints(outcome)

\* variant: a failed retrieval is reported as one sample of value 0
get_cloudwatch_metricsZeroOnError(outcome) ==
  LET body == FetchDatapoints(outcome)
  IN  IF body.raised THEN [raised |-> FALSE, values |-> <<0>>] ELSE body

\* try: ... except Exception: return []
get_cloudwatch_metrics(outcome) ==
  LET body == FetchDatapoints(outcome)
  IN  IF body.raised THEN [raised |-> FALSE, values |-> <<>>] ELSE body


\* ------------------------------------------------------------------------
\* EC2Scanner
\* ------------------------------------------------------------------------
\* variant: the rate is taken for an hour, not for a month
_create_stopped_instance_findingHourly(instance) ==
  create_finding(instance.InstanceId, "EC2", "stopped_instance",
                 Get(cost_map.ec2, instance.InstanceType, DefaultHourlyRate),
                 "medium", "EC2Scanner")

_create_stopped_instance_finding(instance) ==
  create_finding(instance.InstanceId, "EC2", "stopped_instance",
                 calculate_cost_savings("ec2", instance.InstanceType),
                 "medium", "EC2Scanner")

\* variant: the comparison of the severity rule is turned around
EC2CpuSeverityInverted(avg_cpu) == IF FracLess(avg_cpu, 1) THEN "medium" ELSE "high"

\* severity of a low CPU finding of an EC2 instance
EC2CpuSeverity(avg_cpu) == IF FracLess(avg_cpu, 1) THEN "high" ELSE "medium"

EC2Scanner_check_cpu_utilization(instance, m, config) ==
  LET got == get_cloudwatch_metrics(m.CPUUtilization)
      fetched == <<"CPUUtilization">>
  IN  IF got.raised THEN Raise(fetched)
      ELSE LET cpu_values == got.values
           IN  IF cpu_values # <<>>
               THEN LET avg_cpu == Mean(cpu_values)
                        cpu_threshold == Get(config, "cpu_threshold", 5)
                    IN  IF FracLess(avg_cpu, cpu_threshold)
                        THEN Return(<<create_finding(instance.InstanceId, "EC2",
                                        "low_cpu_utilization",
                                        calculate_cost_savings("ec2", instance.InstanceType),
                                        EC2CpuSeverity(avg_cpu), "EC2Scanner")>>,
                                    fetched)
                        ELSE Return(<<>>, fetched)
               ELSE Return(<<>>, fetched)

\* variant: a stopped instance is also checked for low CPU utilization
_analyze_instanceBothRules(instance, m, config) ==
  IF ~instance.has_keys THEN Raise(<<>>)
  ELSE IF instance.State = "terminated" THEN Return(<<>>, <<>>)
  ELSE IF should_exclude_resource(instance.Tags, config) THEN Return(<<>>, <<>>)
  ELSE IF InList(instance.InstanceType, Get(config, "exclude_instance_types", <<>>))
       THEN Return(<<>>, <<>>)
  ELSE IF instance.State \in {"stopped", "running"}
       THEN LET cpu == EC2Scanner_check_cpu_utilization(instance, m, config)
                stopped == IF instance.State = "stopped"
                           THEN <<_create_stopped_instance_finding(instance)>> ELSE <<>>
            IN  IF cpu.raised THEN cpu ELSE [cpu EXCEPT !.findings = stopped \o @]
  ELSE Return(<<>>, <<>>)

_analyze_instance(instance, m, config) ==
  IF ~instance.has_keys THEN Raise(<<>>)
  ELSE IF instance.State = "terminated" THEN Return(<<>>, <<>>)
  ELSE IF should_exclude_resource(instance.Tags, config) THEN Return(<<>>, <<>>)
  ELSE IF InList(instance.InstanceType, Get(config, "exclude_instance_types", <<>>))
       THEN Return(<<>>, <<>>)
  ELSE IF instance.State = "stopped"
       THEN Return(<<_create_stopped_instance_finding(instance)>>, <<>>)
  ELSE IF instance.State = "running"
       THEN EC2Scanner_check_cpu_utilization(instance, m, config)
  ELSE Return(<<>>, <<>>)

\* ------------------------------------------------------------------------
\* RDSScanner
\* ------------------------------------------------------------------------
RDSCpuSeverity(avg_cpu) == IF FracLess(avg_cpu, 2) THEN "high" ELSE "medium"

RDSConnectionSeverity(avg_connections) ==
  IF FracLess(avg_connections, 1) THEN "high" ELSE "medium"

RDSScanner_check_cpu_utilization(db_instance, m, config) ==
  LET got == get_cloudwatch_metrics(m.CPUUtilization)
      fetched == <<"CPUUtilization">>
  IN  IF got.raised THEN Raise(fetched)
      ELSE LET cpu_values == got.values
           IN  IF cpu_values # <<>>
               THEN LET avg_cpu == Mean(cpu_values)
                        cpu_threshold == Get(config, "cpu_threshold", 10)
                    IN  IF FracLess(avg_cpu, cpu_threshold)
                        THEN Return(<<create_finding(db_instance.DBInstanceIdentifier, "RDS",
                                        "low_cpu_utilization",
                                        calculate_cost_savings("rds", db_instance.DBInstanceClass),
                                        RDSCpuSeverity(avg_cpu), "RDSScanner")>>,
                                    fetched)
                        ELSE Return(<<>>, fetched)
               ELSE Return(<<>>, fetched)

_check_database_connections(db_instance, m, config) ==
  LET got == get_cloudwatch_metrics(m.DatabaseConnections)
      fetched == <<"DatabaseConnections">>
  IN  IF got.raised THEN Raise(fetched)
      ELSE LET connection_values == got.values
           IN  IF connection_values # <<>>
               THEN LET avg_connections == Mean(connection_values)
                        connection_threshold == Get(config, "connection_threshold", 5)
                    IN  IF FracLess(avg_connections, connection_threshold)
                        THEN Return(<<create_finding(db_instance.DBInstanceIdentifier, "RDS",
                                        "low_connection_count",
                                        calculate_cost_savings("rds", db_instance.DBInstanceClass),
                                        RDSConnectionSeverity(avg_connections), "RDSScanner")>>,
                                    fetched)
                        ELSE Return(<<>>, fetched)
               ELSE Return(<<>>, fetched)

\* variant: the status of the instance is not looked at
_analyze_db_instanceAnyStatus(db_instance, m, config) ==
  IF ~db_instance.has_keys THEN Raise(<<>>)
  ELSE IF InList(db_instance.Engine, Get(config, "exclude_engines", <<>>))
       THEN Return(<<>>, <<>>)
  ELSE IF /\ db_instance.has_create_time
          /\ db_instance.age_days < Get(config, "minimum_age_days", 7)
       THEN Return(<<>>, <<>>)
  ELSE LET cpu == RDSScanner_check_cpu_utilization(db_instance, m, config)
       IN  IF cpu.raised THEN cpu
           ELSE LET conn == _check_database_connections(db_instance, m, config)
                IN  IF conn.raised THEN Raise(cpu.fetched \o conn.fetched)
                    ELSE Return(cpu.findings \o conn.findings,
                                cpu.fetched \o conn.fetched)

\* variant: the connection rule is tried only when the CPU rule found nothing
_analyze_db_instanceFirstRuleOnly(db_instance, m, config) ==
  IF ~db_instance.has_keys THEN Raise(<<>>)
  ELSE IF db_instance.DBInstanceStatus # "available" THEN Return(<<>>, <<>>)
  ELSE IF InList(db_instance.Engine, Get(config, "exclude_engines", <<>>))
       THEN Return(<<>>, <<>>)
  ELSE IF /\ db_instance.has_create_time
          /\ db_instance.age_days < Get(config, "minimum_age_days", 7)
       THEN Return(<<>>, <<>>)
  ELSE LET cpu == RDSScanner_check_cpu_utilization(db_instance, m, config)
       IN  IF cpu.raised THEN cpu
           ELSE IF cpu.findings # <<>> THEN cpu
           ELSE LET conn == _check_database_connections(db_instance, m, config)
                IN  IF conn.raised THEN Raise(cpu.fetched \o conn.fetched)
                    ELSE Return(cpu.findings \o conn.findings,
                                cpu.fetched \o conn.fetched)

\* variant: an instance whose age equals the minimum is still too new
_analyze_db_instanceAgeInclusive(db_instance, m, config) ==
  IF ~db_instance.has_keys THEN Raise(<<>>)
  ELSE IF db_instance.DBInstanceStatus # "available" THEN Return(<<>>, <<>>)
  ELSE IF InList(db_instance.Engine, Get(config, "exclude_engines", <<>>))
       THEN Return(<<>>, <<>>)
  ELSE IF /\ db_instance.has_create_time
          /\ db_instance.age_days <= Get(config, "minimum_age_days", 7)
       THEN Return(<<>>, <<>>)
  ELSE LET cpu == RDSScanner_check_cpu_utilization(db_instance, m, config)
       IN  IF cpu.raised THEN cpu
           ELSE LET conn == _check_database_connections(db_instance, m, config)
                IN  IF conn.raised THEN Raise(cpu.fetched \o conn.fetched)
                    ELSE Return(cpu.findings \o conn.findings,
                                cpu.fetched \o conn.fetched)

\* variant: an instance without a creation time is not evaluated
_analyze_db_instanceCreateTimeRequired(db_instance, m, config) ==
  IF ~db_instance.has_keys THEN Raise(<<>>)
  ELSE IF db_instance.DBInstanceStatus # "available" THEN Return(<<>>, <<>>)
  ELSE IF InList(db_instance.Engine, Get(config, "exclude_engines", <<>>))
       THEN Return(<<>>, <<>>)
  ELSE IF \/ ~db_instance.has_create_time
          \/ db_instance.age_days < Get(config, "minimum_age_days", 7)
       THEN Return(<<>>, <<>>)
  ELSE LET cpu == RDSScanner_check_cpu_utilization(db_instance, m, config)
       IN  IF cpu.raised THEN cpu
           ELSE LET conn == _check_database_connections(db_instance, m, config)
                IN  IF conn.raised THEN Raise(cpu.fetched \o conn.fetched)
                    ELSE Return(cpu.findings \o conn.findings,
                                cpu.fetched \o conn.fetched)

_analyze_db_instance(db_instance, m, config) ==
  IF ~db_instance.has_keys THEN Raise(<<>>)
  ELSE IF db_instance.DBInstanceStatus # "available" THEN Return(<<>>, <<>>)
  ELSE IF InList(db_instance.Engine, Get(config, "exclude_engines", <<>>))
       THEN Return(<<>>, <<>>)
  ELSE IF /\ db_instance.has_create_time
          /\ db_instance.age_days < Get(config, "minimum_age_days", 7)
       THEN Return(<<>>, <<>>)
  ELSE LET cpu == RDSScanner_check_cpu_utilization(db_instance, m, config)
       IN  IF cpu.raised THEN cpu
           ELSE LET conn == _check_database_connections(db_instance, m, config)
                IN  IF conn.raised THEN Raise(cpu.fetched \o conn.fetched)
                    ELSE Return(cpu.findings \o conn.findings,
                                cpu.fetched \o conn.fetched)

\* ------------------------------------------------------------------------
\* EBSScanner
\* ------------------------------------------------------------------------
\* pricing_per_gb of _calculate_volume_cost, per GB-month in 1e-4 USD
pricing_per_gb ==
  [gp2 |-> 1000, gp3 |-> 800, io1 |-> 1250, io2 |-> 1250, st1 |-> 450, sc1 |-> 250]

_calculate_volume_cost(volume_type, size_gb) ==
  size_gb * Get(pricing_per_gb, volume_type, DefaultPricePerGb)

\* variant: a volume created exactly 30 days ago already counts as long unattached
_create_unattached_volume_findingFrom30(volume) ==
  LET monthly_cost == _calculate_volume_cost(volume.VolumeType, volume.Size)
      days_unattached == IF volume.has_create_time THEN volume.age_days ELSE 0
      severity == IF days_unattached >= 30 THEN "high" ELSE "medium"
  IN  create_finding(volume.VolumeId, "EBS", "unattached_volume",
                     monthly_cost, severity, "EBSScanner")

_create_unattached_volume_finding(volume) ==
  LET monthly_cost == _calculate_volume_cost(volume.VolumeType, volume.Size)
      days_unattached == IF volume.has_create_time THEN volume.age_days ELSE 0
      severity == IF days_unattached > 30 THEN "high" ELSE "medium"
  IN  create_finding(volume.VolumeId, "EBS", "unattached_volume",
                     monthly_cost, severity, "EBSScanner")

\* variant: a volume without any operation is rated critical
EBSSeverityCritical(daily_avg_ops) == IF FracIsZero(daily_avg_ops) THEN "critical" ELSE "low"

EBSSeverity(daily_avg_ops) == IF FracIsZero(daily_avg_ops) THEN "medium" ELSE "low"

\* variant: the full monthly cost is reported
PartialSavingsFull(monthly_cost) == monthly_cost

\* monthly_cost * 0.5
PartialSavings(monthly_cost) == (monthly_cost * 5) \div 10

\* total_ops / days_checked if days_checked > 0 else 0
DailyAvgOps(total_ops, days_checked) ==
  IF days_checked > 0 THEN Frac(total_ops, days_checked) ELSE Frac(0, 1)

\* variant: the rule is evaluated only when both sequences are non-empty
_check_volume_utilizationBothNeeded(volume, m, config) ==
  LET gotR == get_cloudwatch_metrics(m.VolumeReadOps)
      gotW == get_cloudwatch_metrics(m.VolumeWriteOps)
      read_ops == gotR.values
      write_ops == gotW.values
      fetched == <<"VolumeReadOps", "VolumeWriteOps">>
  IN  IF read_ops # <<>> /\ write_ops # <<>>
      THEN LET total_ops == SumSeq(read_ops) + SumSeq(write_ops)
               daily_avg_ops == DailyAvgOps(total_ops, Get(config, "days_to_check", 7))
           IN  IF FracLess(daily_avg_ops, Get(config, "iops_threshold", 1))
               THEN LET monthly_cost ==
                          _calculate_volume_cost(volume.VolumeType, volume.Size)
                    IN  Return(<<create_finding(volume.VolumeId, "EBS",
                                    "low_volume_utilization",
                                    PartialSavings(monthly_cost),
                                    EBSSeverity(daily_avg_ops), "EBSScanner")>>,
                               fetched)
               ELSE Return(<<>>, fetched)
      ELSE Return(<<>>, fetched)

_check_volume_utilization(volume, m, config) ==
  LET gotR == get_cloudwatch_metrics(m.VolumeReadOps)
      gotW == get_cloudwatch_metrics(m.VolumeWriteOps)
  IN  IF gotR.raised THEN Raise(<<"VolumeReadOps">>)
      ELSE IF gotW.raised THEN Raise(<<"VolumeReadOps", "VolumeWriteOps">>)
      ELSE
        LET read_ops == gotR.values
            write_ops == gotW.values
            fetched == <<"VolumeReadOps", "VolumeWriteOps">>
        IN  IF read_ops # <<>> \/ write_ops # <<>>
            THEN LET total_read_ops == IF read_ops # <<>> THEN SumSeq(read_ops) ELSE 0
                     total_write_ops == IF write_ops # <<>> THEN SumSeq(write_ops) ELSE 0
                     total_ops == total_read_ops + total_write_ops
                     days_checked == Get(config, "days_to_check", 7)
                     daily_avg_ops == DailyAvgOps(total_ops, days_checked)
                     iops_threshold == Get(config, "iops_threshold", 1)
                 IN  IF FracLess(daily_avg_ops, iops_threshold)
                     THEN LET monthly_cost ==
                                _calculate_volume_cost(volume.VolumeType, volume.Size)
                          IN  Return(<<create_finding(volume.VolumeId, "EBS",
                                          "low_volume_utilization",
                                          PartialSavings(monthly_cost),
                                          EBSSeverity(daily_avg_ops), "EBSScanner")>>,
                                     fetched)
                     ELSE Return(<<>>, fetched)
            ELSE Return(<<>>, fetched)

\* variant: the volume type is not looked at
_analyze_volumeAnyType(volume, m, config) ==
  IF ~volume.has_keys THEN Raise(<<>>)
  ELSE IF should_exclude_resource(volume.Tags, config) THEN Return(<<>>, <<>>)
  ELSE IF volume.State = "available"
       THEN Return(<<_create_unattached_volume_finding(volume)>>, <<>>)
  ELSE IF volume.State = "in-use"
       THEN _check_volume_utilization(volume, m, config)
  ELSE Return(<<>>, <<>>)

_analyze_volume(volume, m, config) ==
  IF ~volume.has_keys THEN Raise(<<>>)
  ELSE IF should_exclude_resource(volume.Tags, config) THEN Return(<<>>, <<>>)
  ELSE IF ~InList(volume.VolumeType,
                  Get(config, "include_volume_types", <<"gp2", "gp3", "io1", "io2">>))
       THEN Return(<<>>, <<>>)
  ELSE IF volume.State = "available"
       THEN Return(<<_create_unattached_volume_finding(volume)>>, <<>>)
  ELSE IF volume.State = "in-use"
       THEN _check_volume_utilization(volume, m, config)
  ELSE Return(<<>>, <<>>)


\* ------------------------------------------------------------------------
\* ConfigLoader
\* ------------------------------------------------------------------------
_get_default_config ==
  [ec2 |-> [cpu_threshold |-> 5, days_to_check |-> 14, minimum_runtime_hours |-> 24,
            exclude_instance_types |-> <<"t2.nano", "t3.nano">>,
            exclude_tags |-> <<>>],
   rds |-> [cpu_threshold |-> 10, connection_threshold |-> 5, days_to_check |-> 14,
            exclude_engines |-> <<>>, minimum_age_days |-> 7],
   ebs |-> [days_to_check |-> 7, iops_threshold |-> 1, exclude_tags |-> <<>>,
            include_volume_types |-> <<"gp2", "gp3", "io1", "io2">>],
   cost_calculation |-> [pricing_region |-> "us-east-1", include_data_transfer |-> FALSE,
                         currency |-> "USD"],
   reporting |-> [include_recommendations |-> TRUE, group_by_service |-> TRUE,
                  include_cost_breakdown |-> TRUE, max_findings |-> 0]]

\* one section after the cpu_threshold check of _validate_thresholds
ClampCpuThreshold(section_config) ==
  IF Get(section_config, "cpu_threshold", 0) > 100
  THEN [section_config EXCEPT !["cpu_threshold"] = 100]
  ELSE section_config

\* variant: only the upper end of days_to_check is checked
ClampDaysToCheckUpperOnly(section_config) ==
  LET days == Get(section_config, "days_to_check", 14)
  IN  IF days > 90 THEN [k \in DOMAIN section_config \cup {"days_to_check"} |->
                            IF k = "days_to_check" THEN 90 ELSE section_config[k]]
      ELSE section_config

\* one section after the days_to_check check of _validate_thresholds
ClampDaysToCheck(section_config) ==
  LET days == Get(section_config, "days_to_check", 14)
  IN  IF days > 90 THEN [k \in DOMAIN section_config \cup {"days_to_check"} |->
                            IF k = "days_to_check" THEN 90 ELSE section_config[k]]
      ELSE IF days < 1 THEN [k \in DOMAIN section_config \cup {"days_to_check"} |->
                            IF k = "days_to_check" THEN 1 ELSE section_config[k]]
      ELSE section_config

_validate_thresholds(config) ==
  [s \in DOMAIN config |->
     IF s \in {"ec2", "rds"} THEN ClampDaysToCheck(ClampCpuThreshold(config[s]))
     ELSE IF s = "ebs" THEN ClampDaysToCheck(config[s])
     ELSE config[s]]

_validate_config(config) ==
  LET default_config == _get_default_config
      merged == [s \in DOMAIN config \cup DOMAIN default_config |->
                   IF s \notin DOMAIN config THEN default_config[s]
                   ELSE IF s \notin DOMAIN default_config THEN config[s]
                   ELSE [k \in DOMAIN config[s] \cup DOMAIN default_config[s] |->
                           IF k \in DOMAIN config[s] THEN config[s][k]
                           ELSE default_config[s][k]]]
  IN  _validate_thresholds(merged)

\* variant: a file that cannot be loaded gives the defaults
ConfigLoader_loadSwallows(file) ==
  IF file.kind = "ok" THEN [raised |-> FALSE, config |-> _validate_config(file.document)]
  ELSE [raised |-> FALSE, config |-> _get_default_config]

\* ConfigLoader.load of a file that is absent ("missing"), is not valid YAML
\* ("yaml_error"), cannot be read ("io_error"), is empty so that safe_load
\* gives None ("empty"), or holds a mapping ("ok")
ConfigLoader_load(file) ==
  IF file.kind = "missing" THEN [raised |-> FALSE, config |-> _get_default_config]
  ELSE IF file.kind = "ok" THEN [raised |-> FALSE, config |-> _validate_config(file.document)]
  ELSE [raised |-> TRUE, config |-> <<>>]


\* ------------------------------------------------------------------------
\* AWSClientManager
\* ------------------------------------------------------------------------
\* Optional[str]: None, or a string (which may be empty)
None == <<>>
Some(text) == <<text>>
\* truth value of an Optional[str] operand of "or"
Truthy(o) == o # None /\ o[1] # ""

\* variant: the manager's region wins over the argument
ClientRegionManagerFirst(region, self_region) ==
  IF Truthy(self_region) THEN self_region[1]
  ELSE IF Truthy(region) THEN region[1]
  ELSE "us-east-1"

\* client_region = region or self.region or 'us-east-1'
ClientRegion(region, self_region) ==
  IF Truthy(region) THEN region[1]
  ELSE IF Truthy(self_region) THEN self_region[1]
  ELSE "us-east-1"

\* variant: the cache is keyed by the service name alone
ClientKeyServiceOnly(service_name, client_region) == service_name

\* client_key = f"{service_name}_{client_region}"
ClientKey(service_name, client_region) == service_name \o "_" \o client_region

\* the keyword arguments of the session.client call of get_client
SessionClientArgs(service_name, client_region, local_mode) ==
  [service_name |-> service_name, region_name |-> client_region,
   endpoint_url |-> IF local_mode THEN Some("http://localhost:4566") ELSE None]

\* ------------------------------------------------------------------------
\* Inputs: configuration files, resources and metric outcomes
\* ------------------------------------------------------------------------
PyStr(text) == [type |-> "str", repr |-> text]
PyInt(text) == [type |-> "int", repr |-> text]
BareTag(key) == [is_dict |-> FALSE, key |-> key, items |-> <<>>]
DictTag(key, value) ==
  [is_dict |-> TRUE, key |-> "", items |-> <<[key |-> key, value |-> value]>>]

\* a thresholds.yaml that overrides some keys of every scanner's section
CustomDocument ==
  [ec2 |-> [cpu_threshold |-> 3,
            exclude_tags |-> <<BareTag("Keep"), DictTag("env", PyStr("prod"))>>],
   rds |-> [cpu_threshold |-> 4, connection_threshold |-> 2,
            exclude_engines |-> <<"aurora">>, minimum_age_days |-> 2,
            exclude_instance_types |-> <<"db.r5.large">>,
            exclude_tags |-> <<BareTag("Keep")>>],
   ebs |-> [days_to_check |-> 2, iops_threshold |-> 3,
            exclude_tags |-> <<DictTag("tier", PyInt("1"))>>]]

MissingFile == [kind |-> "missing", document |-> <<>>]
CustomFile == [kind |-> "ok", document |-> CustomDocument]

\* the configurations the scanners are evaluated under
EvalConfigs == {ConfigLoader_load(f).config : f \in {MissingFile, CustomFile}}

Tag(key, value) == [Key |-> key, Value |-> value]

\* what the metrics source does on one request
Ok(values) == [kind |-> "ok", values |-> values]
Failure(kind) == [kind |-> kind, values |-> <<>>]
SampleSeqs == UNION {[1..n -> 0..MaxSample] : n \in 0..MaxSamples}
MetricOutcomes ==
  {Ok(v) : v \in SampleSeqs} \cup
  {Failure("client_error"), Failure("api_error"), Failure("bad_response")}
\* outcomes paired with every outcome of the other metric of a resource
AnchorOutcomes == {Failure("api_error"), Ok(<<>>), Ok(<<0>>), Ok(<<MaxSample>>)}
MetricPairs ==
  (MetricOutcomes \X AnchorOutcomes) \cup (AnchorOutcomes \X MetricOutcomes)

EC2Instances ==
  {[has_keys |-> TRUE, InstanceId |-> "i-1", InstanceType |-> t, State |-> st, Tags |-> tg] :
     t \in {"t2.micro", "t2.nano", "c5.large"},
     st \in {"running", "stopped", "terminated", "pending"},
     tg \in {<<>>, <<Tag("Keep", "yes")>>, <<Tag("Name", "web"), Tag("env", "prod")>>,
             <<Tag("env", "dev")>>}}
  \cup {[has_keys |-> FALSE, InstanceId |-> "i-1", InstanceType |-> "t2.micro",
         State |-> "running", Tags |-> <<>>]}

DBInstances ==
  {[has_keys |-> TRUE, DBInstanceIdentifier |-> "db-1", DBInstanceClass |-> c,
    DBInstanceStatus |-> st, Engine |-> e, has_create_time |-> a.has, age_days |-> a.days,
    Tags |-> tg] :
     c \in {"db.t3.micro", "db.r5.large"},
     st \in {"available", "stopped"},
     e \in {"mysql", "aurora"},
     a \in {[has |-> FALSE, days |-> 0], [has |-> TRUE, days |-> 1], [has |-> TRUE, days |-> 7]},
     tg \in {<<>>, <<Tag("Keep", "yes")>>}}
  \cup {[has_keys |-> FALSE, DBInstanceIdentifier |-> "db-1", DBInstanceClass |-> "db.t3.micro",
         DBInstanceStatus |-> "available", Engine |-> "mysql", has_create_time |-> FALSE,
         age_days |-> 0, Tags |-> <<>>]}

Volumes ==
  {[has_keys |-> TRUE, VolumeId |-> "vol-1", VolumeType |-> t, Size |-> 100, State |-> st,
    has_create_time |-> a.has, age_days |-> a.days, Tags |-> tg] :
     t \in {"gp2", "io1", "st1"},
     st \in {"available", "in-use", "creating"},
     a \in {[has |-> FALSE, days |-> 0], [has |-> TRUE, days |-> 30], [has |-> TRUE, days |-> 31]},
     tg \in {<<>>, <<Tag("tier", "1")>>}}
  \cup {[has_keys |-> TRUE, VolumeId |-> "vol-1", VolumeType |-> t, Size |-> sz, State |-> st,
          has_create_time |-> FALSE, age_days |-> 0, Tags |-> <<>>] :
          t \in {"gp2", "io1", "st1"}, st \in {"available", "in-use", "creating"},
          sz \in {0, 1}}
  \cup {[has_keys |-> FALSE, VolumeId |-> "vol-1", VolumeType |-> "gp2", Size |-> 100,
         State |-> "in-use", has_create_time |-> FALSE, age_days |-> 0, Tags |-> <<>>]}

\* --- json.dump / json.load -------------------------------------------------
\* A JSON document is kept as its tree of values.  A number is kept as the
\* decimal digits json.dump writes for it: an amount is a count of 1e-4 USD,
\* so the digits are those of that count (float.__repr__ gives the shortest
\* text that reads back as the same float).
RECURSIVE DecimalDigits(_)
DecimalDigits(n) ==
  IF n < 10 THEN <<n>> ELSE Append(DecimalDigits(n \div 10), n % 10)

RECURSIVE ParseDecimal(_)
ParseDecimal(digits) ==
  IF digits = <<>> THEN 0
  ELSE 10 * ParseDecimal(SubSeq(digits, 1, Len(digits) - 1)) + digits[Len(digits)]

JNumber(n) == [k |-> "number", text |-> DecimalDigits(n)]
JString(s) == [k |-> "string", s |-> s]
JArray(items) == [k |-> "array", items |-> items]
JObject(members) == [k |-> "object", members |-> members]
\* a member no reader of the report takes apart (the configuration mapping)
JOpaque(value) == [k |-> "opaque", value |-> value]

\* one finding as a JSON object
DumpFinding(f) ==
  JObject([resource_id |-> JString(f.resource_id),
           resource_type |-> JString(f.resource_type),
           issue_type |-> JString(f.issue_type),
           monthly_savings |-> JNumber(f.monthly_savings),
           severity |-> JString(f.severity),
           scanner |-> JString(f.scanner)])

\* variant: the total is written with two decimals, as the summary prints it
json_dumpTwoDecimals(report_data) ==
  JObject([total_findings |-> JNumber(report_data.total_findings),
           total_potential_savings |->
             JNumber(((report_data.total_potential_savings + 50) \div 100) * 100),
           findings |-> JArray([i \in 1..Len(report_data.findings) |->
                                  DumpFinding(report_data.findings[i])]),
           configuration |-> JOpaque(report_data.configuration)])

\* json.dump(report_data, f, indent=2, default=str)
json_dump(report_data) ==
  JObject([total_findings |-> JNumber(report_data.total_findings),
           total_potential_savings |-> JNumber(report_data.total_potential_savings),
           findings |-> JArray([i \in 1..Len(report_data.findings) |->
                                  DumpFinding(report_data.findings[i])]),
           configuration |-> JOpaque(report_data.configuration)])

RECURSIVE json_load(_)
\* json.load of a written document
json_load(j) ==
  CASE j.k = "number" -> ParseDecimal(j.text)
    [] j.k = "string" -> j.s
    [] j.k = "array" -> [i \in 1..Len(j.items) |-> json_load(j.items[i])]
    [] j.k = "object" -> [key \in DOMAIN j.members |-> json_load(j.members[key])]
    [] j.k = "opaque" -> j.value

\* ------------------------------------------------------------------------
\* Reporters
\* ------------------------------------------------------------------------
\* variant: the except clause logs and does not re-raise
JSONReporter_generate_reportSwallows(report_data, write_ok) ==
  IF write_ok THEN [raised |-> FALSE, written |-> <<json_dump(report_data)>>]
  ELSE [raised |-> FALSE, written |-> <<>>]

\* JSONReporter.generate_report: mkdir, open and json.dump inside try; the
\* except clause logs and re-raises.  write_ok says whether the writes succeed;
\* written is then the document in the file.
JSONReporter_generate_report(report_data, write_ok) ==
  IF write_ok THEN [raised |-> FALSE, written |-> <<json_dump(report_data)>>]
  ELSE [raised |-> TRUE, written |-> <<>>]

\* --- HTMLReporter._generate_html ---------------------------------------------
\* A value the template formats with :.2f.  An amount is a count of 1e-4 USD;
\* the text shows it in cents, rounded to the nearest cent.  When the amount
\* lies midway between two cents (tie) the binary value of the float decides
\* and the text shows either cents or cents + 1.
TwoDecimals(amount) ==
  [cents |-> IF amount % 100 > 50 THEN amount \div 100 + 1 ELSE amount \div 100,
   tie |-> amount % 100 = 50]

\* variant: a finding is put at the front of its service's list
RECURSIVE findings_by_serviceNewestFirst(_)
findings_by_serviceNewestFirst(findings) ==
  IF findings = <<>> THEN <<>>
  ELSE LET before == findings_by_serviceNewestFirst(SubSeq(findings, 1, Len(findings) - 1))
           finding == findings[Len(findings)]
           service == finding.resource_type
       IN  IF \E i \in 1..Len(before) : before[i].service = service
           THEN LET i == CHOOSE i \in 1..Len(before) : before[i].service = service
                IN  [before EXCEPT ![i].findings = <<finding>> \o @]
           ELSE Append(before, [service |-> service, findings |-> <<finding>>])

\* findings_by_service after the loop over findings: a dict keeps its keys in
\* the order of their insertion, so it is kept as the sequence of its items
RECURSIVE findings_by_service(_)
findings_by_service(findings) ==
  IF findings = <<>> THEN <<>>
  ELSE LET before == findings_by_service(SubSeq(findings, 1, Len(findings) - 1))
           finding == findings[Len(findings)]
           service == finding.resource_type
       IN  IF \E i \in 1..Len(before) : before[i].service = service
           THEN LET i == CHOOSE i \in 1..Len(before) : before[i].service = service
                IN  [before EXCEPT ![i].findings = Append(@, finding)]
           ELSE Append(before, [service |-> service, findings |-> <<finding>>])

\* service_savings = sum(f.get('monthly_savings', 0) for f in service_findings)
service_savings(service_findings) ==
  SumSeq([i \in 1..Len(service_findings) |-> service_findings[i].monthly_savings])

\* the block the template writes for one finding
RenderFinding(finding) ==
  [severity |-> finding.severity, resource_id |-> finding.resource_id,
   monthly_savings |-> TwoDecimals(finding.monthly_savings)]

\* The document _generate_html returns, kept as the values put into the
\* template in their order: the three summary cards, then one section per
\* service with its heading and its findings.
_generate_html(report_data) ==
  LET findings == report_data.findings
      groups == findings_by_service(findings)
  IN  [total_findings |-> Len(findings),
       total_savings |-> TwoDecimals(report_data.total_potential_savings),
       services_analyzed |-> Len(groups),
       sections |->
         [g \in 1..Len(groups) |->
            [service |-> groups[g].service,
             count |-> Len(groups[g].findings),
             savings |-> TwoDecimals(service_savings(groups[g].findings)),
             findings |-> [i \in 1..Len(groups[g].findings) |->
                             RenderFinding(groups[g].findings[i])]]]]

\* HTMLReporter.generate_report: same shape, the content comes from _generate_html
HTMLReporter_generate_report(report_data, write_ok) ==
  IF write_ok THEN [raised |-> FALSE, written |-> <<_generate_html(report_data)>>]
  ELSE [raised |-> TRUE, written |-> <<>>]

\* ------------------------------------------------------------------------
\* main()
\* ------------------------------------------------------------------------
\* variant: the list is built in another order
scannersReordered == <<"EC2", "EBS", "RDS">>

\* the scanners list of main(), in the order it is built
scanners == <<"EC2", "RDS", "EBS">>

\* variant: only the first finding of a scanner is counted
ScannerSavingsFirstOnly(findings) ==
  IF findings = <<>> THEN 0 ELSE Get(findings[1], "monthly_savings", 0)

\* sum(f.get('monthly_savings', 0) for f in findings)
ScannerSavings(findings) ==
  SumSeq([i \in 1..Len(findings) |-> Get(findings[i], "monthly_savings", 0)])

\* variant: the except clause returns an empty list
ScanExceptDropsFindings(findings) == <<>>

\* the except clause of a scanner's scan(): log, then fall through to
\* "return findings" with whatever the loop had collected
ScanExcept(findings) == findings

\* variant: a finding for a resource that already has one is left out
RECURSIVE extendDeduplicated(_, _)
extendDeduplicated(all, fs) ==
  IF fs = <<>> THEN all
  ELSE extendDeduplicated(IF \E i \in 1..Len(all) : all[i].resource_id = Head(fs).resource_id
                          THEN all ELSE Append(all, Head(fs)),
                          Tail(fs))

\* all_findings.extend(findings)
extend(all, fs) == all \o fs

\* report_data of main()
ReportData(all_findings, total_potential_savings, config) ==
  [total_findings |-> Len(all_findings),
   total_potential_savings |-> total_potential_savings,
   findings |-> all_findings,
   configuration |-> config]

\* the files --config may name
MalformedFiles ==
  {[kind |-> "yaml_error", document |-> <<>>], [kind |-> "io_error", document |-> <<>>],
   [kind |-> "empty", document |-> <<>>]}
ConfigFiles == {MissingFile, CustomFile} \cup MalformedFiles

\* the inventory main()'s scanners meet: resources and what the metrics source
\* answers for them.  The regions and pages a scan walks through are not kept
\* apart: a scan is a stream of resources that any inventory call may cut short.
ScanInstances ==
  {r \in EC2Instances :
     \/ ~r.has_keys
     \/ r.InstanceType = "t2.micro" /\ r.Tags = <<>> /\ r.State \in {"running", "stopped"}}
ScanDBInstances ==
  {r \in DBInstances :
     \/ ~r.has_keys
     \/ /\ r.DBInstanceClass = "db.t3.micro" /\ r.Tags = <<>> /\ r.Engine = "mysql"
        /\ r.DBInstanceStatus = "available" /\ r.has_create_time /\ r.age_days = 7}
ScanVolumes ==
  {r \in Volumes :
     \/ ~r.has_keys
     \/ /\ r.VolumeType = "gp2" /\ r.Tags = <<>> /\ r.State \in {"available", "in-use"}
        /\ r.has_create_time /\ r.age_days = 31}
ScanOutcomes == {Ok(<<0>>), Ok(<<MaxSample>>), Failure("api_error")}

\* the analysis a scanner applies to one resource of its inventory
Analyze(kind, resource, outcomes, config) ==
  CASE kind = "EC2" ->
         _analyze_instance(resource, [CPUUtilization |-> outcomes[1]],
                           Get(config, "ec2", <<>>))
    [] kind = "RDS" ->
         _analyze_db_instance(resource,
                              [CPUUtilization |-> outcomes[1],
                               DatabaseConnections |-> outcomes[2]],
                              Get(config, "rds", <<>>))
    [] kind = "EBS" ->
         _analyze_volume(resource,
                         [VolumeReadOps |-> outcomes[1], VolumeWriteOps |-> outcomes[2]],
                         Get(config, "ebs", <<>>))

Inventory(kind) ==
  CASE kind = "EC2" -> ScanInstances
    [] kind = "RDS" -> ScanDBInstances
    [] kind = "EBS" -> ScanVolumes

\* ------------------------------------------------------------------------
\* State
\* ------------------------------------------------------------------------
VARIABLES
  ev_kind,      \* scanner of the last analysed resource: "EC2", "RDS", "EBS" or "none"
  ev_resource,  \* the resource description handed to the analysis
  ev_metrics,   \* what the metrics source does for each metric of the resource
  ev_config,    \* the scanner's configuration section
  ev_result,    \* what the analysis returned: raised, findings, metrics fetched
  pc,           \* where main() is: "load_config", "create_client", "scan",
                \* "scanning", "report", "done", "exit"
  config_file,  \* the file --config named, once load has read it
  config,       \* the configuration ConfigLoader.load returned
  aws_client,   \* "none" until AWSClientManager is constructed, then "ready"
  scanner_idx,  \* position in scanners of the scanner running or to run next
  findings,     \* the findings list local to the running scan()
  analysed,     \* resources analysed so far in this run
  all_findings,             \* all_findings of main()
  total_potential_savings,  \* total_potential_savings of main()
  last_scan,    \* the last finished scan(): kind, whether its except clause ran,
                \* what it returned
  scan_results, \* history: the list each finished scan() returned, in order
  events,       \* history: scan starts and ends and reporter calls, in order
  report,       \* what the reporter was given and wrote
  summary_logged,  \* whether "Scan complete!" was logged and the summary printed
  exit_status,  \* "running", "0" or "1"
  sev_cmp,      \* one utilization rule applied to two sample sequences a and b
  cl_file,      \* the file handed to ConfigLoader.load
  cl_result,    \* what ConfigLoader.load did: raised, or the configuration returned
  cm_manager,   \* the AWSClientManager: session ("none", "ready", "failed"), profile,
                \* region, local_mode
  cm_clients,   \* its _clients cache: client_key -> client
  cm_calls,     \* history: the arguments of every session.client call, in order
  cm_last,      \* the last get_client call: its number, arguments and outcome
  fn_call       \* one call of a function on its own: name, arguments, result

ev_vars == <<ev_kind, ev_resource, ev_metrics, ev_config, ev_result>>
main_vars == <<pc, config_file, config, aws_client, scanner_idx, findings, analysed,
               all_findings, total_potential_savings, last_scan, scan_results, events,
               report, summary_logged, exit_status>>
sev_vars == <<sev_cmp>>
cl_vars == <<cl_file, cl_result>>
cm_vars == <<cm_manager, cm_clients, cm_calls, cm_last>>
fn_vars == <<fn_call>>
vars == <<ev_vars, main_vars, sev_vars, cl_vars, cm_vars, fn_vars>>

NoScan == [kind |-> "none", failed |-> FALSE, returned |-> <<>>]
NoReport == [format |-> "none", write_ok |-> TRUE, given |-> <<>>, written |-> <<>>]

InitEval ==
  /\ ev_kind = "none"
  /\ ev_resource = <<>>
  /\ ev_metrics = <<>>
  /\ ev_config = <<>>
  /\ ev_result = Return(<<>>, <<>>)

InitMain ==
  /\ pc = "load_config"
  /\ config_file = [kind |-> "none", document |-> <<>>]
  /\ config = <<>>
  /\ aws_client = "none"
  /\ scanner_idx = 1
  /\ findings = <<>>
  /\ analysed = 0
  /\ all_findings = <<>>
  /\ total_potential_savings = 0
  /\ last_scan = NoScan
  /\ scan_results = <<>>
  /\ events = <<>>
  /\ report = NoReport
  /\ summary_logged = FALSE
  /\ exit_status = "running"

NoComparison == [rule |-> "none", config |-> <<>>, a |-> <<>>, b |-> <<>>,
                 found_a |-> <<>>, found_b |-> <<>>, found_both |-> <<>>]

InitSeverity == sev_cmp = NoComparison

InitConfig ==
  /\ cl_file = [kind |-> "none", document |-> <<>>]
  /\ cl_result = [raised |-> FALSE, config |-> <<>>]

NoManager == [session |-> "none", profile |-> <<>>, region |-> <<>>, local_mode |-> FALSE]
NoCall == [n |-> 0, service_name |-> "none", region |-> <<>>, raised |-> FALSE,
           created |-> FALSE, client |-> <<>>]

InitClient ==
  /\ cm_manager = NoManager
  /\ cm_clients = <<>>
  /\ cm_calls = <<>>
  /\ cm_last = NoCall

NoFunctionCall == [name |-> "none", args |-> <<>>, result |-> <<>>]

InitFunction == fn_call = NoFunctionCall

Init == InitEval /\ InitMain /\ InitSeverity /\ InitConfig /\ InitClient /\ InitFunction

\* ------------------------------------------------------------------------
\* Evaluation of one resource by one scanner
\* ------------------------------------------------------------------------
\* EC2Scanner._analyze_instance on one instance
EvalEC2 ==
  /\ ev_kind = "none"
  /\ \E instance \in EC2Instances, o \in MetricOutcomes, cfg \in EvalConfigs :
       LET m == [CPUUtilization |-> o]
           scanner_config == Get(cfg, "ec2", <<>>)
       IN  /\ ev_kind' = "EC2"
           /\ ev_resource' = instance
           /\ ev_metrics' = m
           /\ ev_config' = scanner_config
           /\ ev_result' = _analyze_instance(instance, m, scanner_config)
  /\ UNCHANGED <<main_vars, sev_vars, cl_vars, cm_vars, fn_vars>>

\* RDSScanner._analyze_db_instance on one database instance
EvalRDS ==
  /\ ev_kind = "none"
  /\ \E db_instance \in DBInstances, p \in MetricPairs, cfg \in EvalConfigs :
       LET m == [CPUUtilization |-> p[1], DatabaseConnections |-> p[2]]
           scanner_config == Get(cfg, "rds", <<>>)
       IN  /\ ev_kind' = "RDS"
           /\ ev_resource' = db_instance
           /\ ev_metrics' = m
           /\ ev_config' = scanner_config
           /\ ev_result' = _analyze_db_instance(db_instance, m, scanner_config)
  /\ UNCHANGED <<main_vars, sev_vars, cl_vars, cm_vars, fn_vars>>

\* EBSScanner._analyze_volume on one volume
EvalEBS ==
  /\ ev_kind = "none"
  /\ \E volume \in Volumes, p \in MetricPairs, cfg \in EvalConfigs :
       LET m == [VolumeReadOps |-> p[1], VolumeWriteOps |-> p[2]]
           scanner_config == Get(cfg, "ebs", <<>>)
       IN  /\ ev_kind' = "EBS"
           /\ ev_resource' = volume
           /\ ev_metrics' = m
           /\ ev_config' = scanner_config
           /\ ev_result' = _analyze_volume(volume, m, scanner_config)
  /\ UNCHANGED <<main_vars, sev_vars, cl_vars, cm_vars, fn_vars>>

NextEval == EvalEC2 \/ EvalRDS \/ EvalEBS

SpecEval == Init /\ [][NextEval]_vars

\* ------------------------------------------------------------------------
\* One utilization rule applied to two sample sequences
\* ------------------------------------------------------------------------
UtilizationRules == {"ec2_cpu", "rds_cpu", "rds_connections", "ebs_ops"}

RuleResource(rule) ==
  CASE rule = "ec2_cpu" ->
         [has_keys |-> TRUE, InstanceId |-> "i-1", InstanceType |-> "t2.micro",
          State |-> "running", Tags |-> <<>>]
    [] rule \in {"rds_cpu", "rds_connections"} ->
         [has_keys |-> TRUE, DBInstanceIdentifier |-> "db-1",
          DBInstanceClass |-> "db.t3.micro", DBInstanceStatus |-> "available",
          Engine |-> "mysql", has_create_time |-> TRUE, age_days |-> 7, Tags |-> <<>>]
    [] rule = "ebs_ops" ->
         [has_keys |-> TRUE, VolumeId |-> "vol-1", VolumeType |-> "gp2", Size |-> 100,
          State |-> "in-use", has_create_time |-> TRUE, age_days |-> 31, Tags |-> <<>>]

RuleSection(rule) ==
  CASE rule = "ec2_cpu" -> "ec2"
    [] rule \in {"rds_cpu", "rds_connections"} -> "rds"
    [] rule = "ebs_ops" -> "ebs"

\* the findings of the rule's check method when the metrics source returns values
ApplyRule(rule, values, scanner_config) ==
  CASE rule = "ec2_cpu" ->
         EC2Scanner_check_cpu_utilization(RuleResource(rule),
                                          [CPUUtilization |-> Ok(values)],
                                          scanner_config).findings
    [] rule = "rds_cpu" ->
         RDSScanner_check_cpu_utilization(RuleResource(rule),
                                          [CPUUtilization |-> Ok(values)],
                                          scanner_config).findings
    [] rule = "rds_connections" ->
         _check_database_connections(RuleResource(rule),
                                     [DatabaseConnections |-> Ok(values)],
                                     scanner_config).findings
    [] rule = "ebs_ops" ->
         _check_volume_utilization(RuleResource(rule),
                                   [VolumeReadOps |-> Ok(values),
                                    VolumeWriteOps |-> Ok(<<>>)],
                                   scanner_config).findings

\* the findings of the rule when the metrics source returns a and, for the
\* rule of two metrics, b for the second
ApplyRuleBoth(rule, a, b, scanner_config) ==
  IF rule = "ebs_ops"
  THEN _check_volume_utilization(RuleResource(rule),
                                 [VolumeReadOps |-> Ok(a), VolumeWriteOps |-> Ok(b)],
                                 scanner_config).findings
  ELSE ApplyRule(rule, a, scanner_config)

\* the sample sequences a rule is applied to
RuleSampleSeqs == UNION {[1..n -> 0..MaxRuleSample] : n \in 1..MaxSamples}

\* the configuration a scanner may be built with: its section of a loaded
\* configuration, or an empty mapping, which leaves every key to the default
\* of the scanner's own config.get
RuleConfigs(rule) == {Get(cfg, RuleSection(rule), <<>>) : cfg \in EvalConfigs} \cup {<<>>}

\* a ranges over every non-empty sample sequence, b over the sequences of one
\* sample, so that the two statistics meet on both sides of every boundary
CompareSeverity ==
  /\ sev_cmp.rule = "none"
  /\ \E rule \in UtilizationRules, a \in RuleSampleSeqs, v \in 0..MaxRuleSample :
       \E scanner_config \in RuleConfigs(rule) :
         LET b == <<v>>
         IN  sev_cmp' = [rule |-> rule, config |-> scanner_config, a |-> a, b |-> b,
                         found_a |-> ApplyRule(rule, a, scanner_config),
                         found_b |-> ApplyRule(rule, b, scanner_config),
                         found_both |-> ApplyRuleBoth(rule, a, b, scanner_config)]
  /\ UNCHANGED <<ev_vars, main_vars, cl_vars, cm_vars, fn_vars>>

NextSeverity == CompareSeverity

SpecSeverity == Init /\ [][NextSeverity]_vars

\* ------------------------------------------------------------------------
\* ConfigLoader.load on one file
\* ------------------------------------------------------------------------
\* the numeric values a document may give a key: both sides of every limit
\* of _validate_thresholds, and beyond
ConfigValues == {-1, 0, 1, 50, 90, 91, 100, 101, MaxConfigValue}

\* the numeric keys a document may give in a section; custom_limit is a key
\* the defaults do not know
SectionKeys(section) ==
  CASE section = "ec2" -> {"cpu_threshold", "days_to_check", "custom_limit"}
    [] section = "rds" -> {"cpu_threshold", "connection_threshold", "days_to_check"}
    [] section = "ebs" -> {"iops_threshold", "days_to_check"}

\* every mapping a document may hold for a section
SectionDocs(section) == UNION {[K -> ConfigValues] : K \in SUBSET SectionKeys(section)}

\* what a document holds beside the section that is varied: any of the other
\* scanner sections, and a section the defaults do not know
OtherSections(section) ==
  UNION {[S -> {[days_to_check |-> 30]}] :
           S \in SUBSET ({"ec2", "rds", "ebs", "notifications"} \ {section})}

\* the mappings yaml.safe_load may return
Documents ==
  UNION {{[x \in {section} |-> sec] @@ others :
            sec \in SectionDocs(section), others \in OtherSections(section)} :
         section \in {"ec2", "rds", "ebs"}}
  \cup {CustomDocument, <<>>}

LoaderFiles ==
  {MissingFile} \cup MalformedFiles \cup {[kind |-> "ok", document |-> d] : d \in Documents}

\* ConfigLoader.load(config_path)
LoadFile ==
  /\ cl_file.kind = "none"
  /\ \E file \in LoaderFiles :
       /\ cl_file' = file
       /\ cl_result' = ConfigLoader_load(file)
  /\ UNCHANGED <<ev_vars, main_vars, sev_vars, cm_vars, fn_vars>>

NextConfig == LoadFile

SpecConfig == Init /\ [][NextConfig]_vars

\* ------------------------------------------------------------------------
\* AWSClientManager: construction and get_client calls
\* ------------------------------------------------------------------------
Profiles == {None, Some("dev")}
ManagerRegions == {None, Some(""), Some("us-west-2")}
Services == {"ec2", "rds", "cloudwatch"}
RegionArgs == {None, Some(""), Some("us-west-2"), Some("eu-west-1")}

\* AWSClientManager(profile, region, local_mode): the fields are set, then
\* _create_session runs, which re-raises what boto3.Session raises
Construct ==
  /\ cm_manager.session = "none"
  /\ \E profile \in Profiles, region \in ManagerRegions, local_mode \in BOOLEAN,
        session_ok \in BOOLEAN :
       cm_manager' = [session |-> IF session_ok THEN "ready" ELSE "failed",
                      profile |-> profile, region |-> region, local_mode |-> local_mode]
  /\ cm_clients' = <<>>
  /\ UNCHANGED <<cm_calls, cm_last>>
  /\ UNCHANGED <<ev_vars, main_vars, sev_vars, cl_vars, fn_vars>>

\* get_client(service_name, region): a client of the cache is returned as it
\* is; otherwise session.client is called, and its client is cached and
\* returned, or its exception re-raised
GetClient ==
  /\ cm_manager.session = "ready"
  /\ cm_last.n < MaxClientCalls
  /\ \E service_name \in Services, region \in RegionArgs, create_ok \in BOOLEAN :
       LET client_region == ClientRegion(region, cm_manager.region)
           client_key == ClientKey(service_name, client_region)
           args == SessionClientArgs(service_name, client_region, cm_manager.local_mode)
           client == [created_by |-> args, call |-> Len(cm_calls) + 1]
           call == [n |-> cm_last.n + 1, service_name |-> service_name, region |-> region,
                    raised |-> FALSE, created |-> FALSE, client |-> <<>>]
       IN  IF client_key \in DOMAIN cm_clients
           THEN /\ create_ok
                /\ cm_last' = [call EXCEPT !.client = <<cm_clients[client_key]>>]
                /\ UNCHANGED <<cm_clients, cm_calls>>
           ELSE /\ cm_calls' = Append(cm_calls, args)
                /\ IF create_ok
                   THEN /\ cm_clients' = (client_key :> client) @@ cm_clients
                        /\ cm_last' = [call EXCEPT !.created = TRUE, !.client = <<client>>]
                   ELSE /\ cm_last' = [call EXCEPT !.raised = TRUE]
                        /\ UNCHANGED cm_clients
  /\ UNCHANGED cm_manager
  /\ UNCHANGED <<ev_vars, main_vars, sev_vars, cl_vars, fn_vars>>

NextClient == Construct \/ GetClient

SpecClient == Init /\ [][NextClient]_vars

\* ------------------------------------------------------------------------
\* BaseScanner.should_exclude_resource on one tag list and one configuration
\* ------------------------------------------------------------------------
\* the tags a resource may carry
TagPool ==
  {Tag("Keep", "yes"), Tag("env", "prod"), Tag("env", "dev"), Tag("tier", "1"),
   Tag("tier", "one")}

\* the entries exclude_tags may hold: bare keys, and key+value mappings whose
\* value YAML read as a string or as an integer
ExcludeEntryPool ==
  {BareTag("Keep"), BareTag("tier"), DictTag("env", PyStr("prod")),
   DictTag("tier", PyInt("1")), DictTag("tier", PyStr("one"))}

SeqsUpTo(S, n) == UNION {[1..k -> S] : k \in 0..n}

\* a scanner section with an exclude_tags list, or without the key
TagConfigs == {<<>>} \cup {[exclude_tags |-> e] : e \in SeqsUpTo(ExcludeEntryPool, MaxTags)}

\* self.should_exclude_resource(tags)
CallShouldExclude ==
  /\ fn_call.name = "none"
  /\ \E tags \in SeqsUpTo(TagPool, MaxTags), scanner_config \in TagConfigs :
       fn_call' = [name |-> "should_exclude_resource",
                   args |-> [tags |-> tags, config |-> scanner_config],
                   result |-> should_exclude_resource(tags, scanner_config)]
  /\ UNCHANGED <<ev_vars, main_vars, sev_vars, cl_vars, cm_vars>>

NextTags == CallShouldExclude

SpecTags == Init /\ [][NextTags]_vars

\* ------------------------------------------------------------------------
\* the pricing estimates on one pair of arguments
\* ------------------------------------------------------------------------
\* resource_type arguments: the two kinds of the table and two without a table
PricedKinds == {"ec2", "rds", "ebs", "lambda"}

\* instance_type arguments: every size class of the table and two absent ones
PricedTypes ==
  DOMAIN cost_map.ec2 \cup DOMAIN cost_map.rds \cup {"c5.large", "unknown"}

\* volume_type arguments: every type of the table and two absent ones
PricedVolumeTypes == DOMAIN pricing_per_gb \cup {"standard", "unknown"}

\* self.calculate_cost_savings(resource_type, instance_type, region)
CallCostSavings ==
  /\ fn_call.name = "none"
  /\ \E resource_type \in PricedKinds, instance_type \in PricedTypes :
       fn_call' = [name |-> "calculate_cost_savings",
                   args |-> [resource_type |-> resource_type,
                             instance_type |-> instance_type],
                   result |-> calculate_cost_savings(resource_type, instance_type)]
  /\ UNCHANGED <<ev_vars, main_vars, sev_vars, cl_vars, cm_vars>>

\* self._calculate_volume_cost(volume_type, size_gb, region)
CallVolumeCost ==
  /\ fn_call.name = "none"
  /\ \E volume_type \in PricedVolumeTypes, size_gb \in 0..MaxPricedSize :
       fn_call' = [name |-> "_calculate_volume_cost",
                   args |-> [volume_type |-> volume_type, size_gb |-> size_gb],
                   result |-> _calculate_volume_cost(volume_type, size_gb)]
  /\ UNCHANGED <<ev_vars, main_vars, sev_vars, cl_vars, cm_vars>>

NextPricing == CallCostSavings \/ CallVolumeCost

SpecPricing == Init /\ [][NextPricing]_vars

\* ------------------------------------------------------------------------
\* HTMLReporter._generate_html on one list of findings
\* ------------------------------------------------------------------------
\* findings a report may hold, of the three resource types
ReportFindings ==
  {create_finding("i-1", "EC2", "stopped_instance", 84680, "medium", "EC2Scanner"),
   create_finding("i-2", "EC2", "low_cpu_utilization", 303680, "low", "EC2Scanner"),
   create_finding("db-1", "RDS", "low_cpu_utilization", 124100, "medium", "RDSScanner"),
   create_finding("vol-1", "EBS", "low_volume_utilization", 375, "low", "EBSScanner"),
   create_finding("vol-2", "EBS", "unattached_volume", 1000, "high", "EBSScanner")}

\* self._generate_html(report_data); the result keeps, next to the document,
\* findings_by_service and the service_savings of each of its items
CallGenerateHtml ==
  /\ fn_call.name = "none"
  /\ \E fs \in SeqsUpTo(ReportFindings, MaxReportFindings) :
       LET report_data == ReportData(fs, SumSeq([i \in 1..Len(fs) |->
                                                         fs[i].monthly_savings]),
                                     _get_default_config)
           groups == findings_by_service(fs)
       IN  fn_call' = [name |-> "_generate_html",
                       args |-> [report_data |-> report_data],
                       result |-> [findings_by_service |-> groups,
                                   service_savings |->
                                     [g \in 1..Len(groups) |->
                                        service_savings(groups[g].findings)],
                                   html |-> _generate_html(report_data)]]
  /\ UNCHANGED <<ev_vars, main_vars, sev_vars, cl_vars, cm_vars>>

NextHtml == CallGenerateHtml

SpecHtml == Init /\ [][NextHtml]_vars

\* ------------------------------------------------------------------------
\* main(): one action per step between two calls to the outside
\* ------------------------------------------------------------------------
\* sys.exit(1) of the except clause of main()
Exit1 ==
  /\ pc' = "exit"
  /\ exit_status' = "1"

\* config = ConfigLoader.load(args.config)
LoadConfig ==
  /\ pc = "load_config"
  /\ \E file \in ConfigFiles :
       LET loaded == ConfigLoader_load(file)
       IN  /\ config_file' = file
           /\ IF loaded.raised
              THEN /\ Exit1
                   /\ UNCHANGED config
              ELSE /\ config' = loaded.config
                   /\ pc' = "create_client"
                   /\ UNCHANGED exit_status
  /\ UNCHANGED <<aws_client, scanner_idx, findings, analysed, all_findings,
                 total_potential_savings, last_scan, scan_results, events, report,
                 summary_logged>>
  /\ UNCHANGED <<ev_vars, sev_vars, cl_vars, cm_vars, fn_vars>>

\* aws_client = AWSClientManager(...), whose session creation may raise; then
\* the scanners list, all_findings = [] and total_potential_savings = 0
CreateClientManager ==
  /\ pc = "create_client"
  /\ \E session_ok \in BOOLEAN :
       IF session_ok
       THEN /\ aws_client' = "ready"
            /\ scanner_idx' = 1
            /\ all_findings' = <<>>
            /\ total_potential_savings' = 0
            /\ pc' = "scan"
            /\ UNCHANGED exit_status
       ELSE /\ Exit1
            /\ UNCHANGED <<aws_client, scanner_idx, all_findings, total_potential_savings>>
  /\ UNCHANGED <<config_file, config, findings, analysed, last_scan, scan_results, events,
                 report, summary_logged>>
  /\ UNCHANGED <<ev_vars, sev_vars, cl_vars, cm_vars, fn_vars>>

\* findings = scanner.scan() begins: findings = [] and the try block is entered
ScanStart ==
  /\ pc = "scan"
  /\ findings' = <<>>
  /\ events' = Append(events, <<scanners[scanner_idx], "start">>)
  /\ pc' = "scanning"
  /\ UNCHANGED <<config_file, config, aws_client, scanner_idx, analysed, all_findings,
                 total_potential_savings, last_scan, scan_results, report, summary_logged,
                 exit_status>>
  /\ UNCHANGED <<ev_vars, sev_vars, cl_vars, cm_vars, fn_vars>>

\* scan() returns fs to the loop body of main(), which extends all_findings,
\* adds the scanner's savings to the running total and moves to the next scanner
ScanReturns(fs, failed) ==
  /\ all_findings' = extend(all_findings, fs)
  /\ scan_results' = Append(scan_results, fs)
  /\ total_potential_savings' = total_potential_savings + ScannerSavings(fs)
  /\ last_scan' = [kind |-> scanners[scanner_idx], failed |-> failed, returned |-> fs]
  /\ events' = Append(events, <<scanners[scanner_idx], "end">>)
  /\ findings' = <<>>
  /\ IF scanner_idx < Len(scanners)
     THEN /\ scanner_idx' = scanner_idx + 1
          /\ pc' = "scan"
     ELSE /\ pc' = "report"
          /\ UNCHANGED scanner_idx

\* the next resource of the inventory is analysed; an exception of the
\* analysis reaches the except clause of scan()
ScanResource ==
  /\ pc = "scanning"
  /\ analysed < MaxResources
  /\ analysed' = analysed + 1
  /\ \E resource \in Inventory(scanners[scanner_idx]), outcomes \in ScanOutcomes \X ScanOutcomes :
       LET out == Analyze(scanners[scanner_idx], resource, outcomes, config)
       IN  IF out.raised
           THEN ScanReturns(ScanExcept(findings), TRUE)
           ELSE /\ findings' = findings \o out.findings
                /\ UNCHANGED <<pc, scanner_idx, all_findings, total_potential_savings,
                               last_scan, scan_results, events>>
  /\ UNCHANGED <<config_file, config, aws_client, report, summary_logged, exit_status>>
  /\ UNCHANGED <<ev_vars, sev_vars, cl_vars, cm_vars, fn_vars>>

\* an inventory call (get_client, get_paginator, a page of paginate) raises
\* inside the try block of scan()
ScanInventoryFails ==
  /\ pc = "scanning"
  /\ ScanReturns(ScanExcept(findings), TRUE)
  /\ UNCHANGED <<config_file, config, aws_client, analysed, report, summary_logged,
                 exit_status>>
  /\ UNCHANGED <<ev_vars, sev_vars, cl_vars, cm_vars, fn_vars>>

\* the loops of scan() end and it returns findings
ScanCompletes ==
  /\ pc = "scanning"
  /\ ScanReturns(findings, FALSE)
  /\ UNCHANGED <<config_file, config, aws_client, analysed, report, summary_logged,
                 exit_status>>
  /\ UNCHANGED <<ev_vars, sev_vars, cl_vars, cm_vars, fn_vars>>

\* report_data is built and reporter.generate_report(report_data, args.output)
\* is called; on success the summary is logged and printed
GenerateReport ==
  /\ pc = "report"
  /\ \E format \in {"json", "html"}, write_ok \in BOOLEAN :
       LET report_data == ReportData(all_findings, total_potential_savings, config)
           done == IF format = "json"
                   THEN JSONReporter_generate_report(report_data, write_ok)
                   ELSE HTMLReporter_generate_report(report_data, write_ok)
       IN  /\ report' = [format |-> format, write_ok |-> write_ok,
                         given |-> <<report_data>>, written |-> done.written]
           /\ events' = Append(events, <<"reporter", "generate_report">>)
           /\ IF done.raised
              THEN /\ Exit1
                   /\ UNCHANGED summary_logged
              ELSE /\ summary_logged' = TRUE
                   /\ pc' = "done"
                   /\ exit_status' = "0"
  /\ UNCHANGED <<config_file, config, aws_client, scanner_idx, findings, analysed,
                 all_findings, total_potential_savings, last_scan, scan_results>>
  /\ UNCHANGED <<ev_vars, sev_vars, cl_vars, cm_vars, fn_vars>>

Next ==
  \/ LoadConfig
  \/ CreateClientManager
  \/ ScanStart
  \/ ScanResource
  \/ ScanInventoryFails
  \/ ScanCompletes
  \/ GenerateReport

Spec == Init /\ [][Next]_vars


\* ------------------------------------------------------------------------
\* Properties
\* ------------------------------------------------------------------------
HasIssue(fs, issue_type) == \E i \in 1..Len(fs) : fs[i].issue_type = issue_type
NoData(outcome) == outcome.kind # "ok" \/ outcome.values = <<>>
SumSavings(fs) == SumSeq([i \in 1..Len(fs) |-> fs[i].monthly_savings])
IsPrefix(s, t) == Len(s) <= Len(t) /\ SubSeq(t, 1, Len(s)) = s
Evaluated(kind) == ev_kind = kind /\ ev_resource.has_keys

\* C1: for every kind of resource (EC2, EBS, RDS), a resource one of whose
\* tags matches an entry of the configured exclude_tags gets an empty list of
\* findings from its analysis, whatever its state and metrics.
C1_ExcludedTagNoFindings ==
  (/\ ev_kind \in {"EC2", "RDS", "EBS"}
   /\ ev_resource.has_keys
   /\ should_exclude_resource(ev_resource.Tags, ev_config))
  => (~ev_result.raised /\ ev_result.findings = <<>>)

\* C2: a terminated EC2 instance and an RDS instance that is not available
\* produce no finding, and no metric is fetched for them, whatever the tags,
\* type, age and configuration.
C2_InapplicableStateNoFindingNoFetch ==
  /\ (Evaluated("EC2") /\ ev_resource.State = "terminated")
       => ev_result = Return(<<>>, <<>>)
  /\ (Evaluated("RDS") /\ ev_resource.DBInstanceStatus # "available")
       => ev_result = Return(<<>>, <<>>)

C2_Witness ==
  /\ ev_kind = "EC2"
  /\ ev_resource.has_keys
  /\ ev_resource.State = "terminated"
  /\ ev_resource.InstanceType = "t2.micro"
  /\ ev_resource.Tags = <<>>
  /\ ev_metrics.CPUUtilization = Ok(<<0>>)
  /\ ev_result.findings = <<>>

C5_FailedScanReturnsEmpty == last_scan.failed => last_scan.returned = <<>>

\* C5 as amended: when an inventory call or the analysis of a resource raises
\* during scan(), scan() does not raise (main() goes on with the next scanner
\* or the report) and returns the findings collected before the failure.
C5_FailedScanReturnsCollected ==
  [][(pc = "scanning" /\ pc' # "scanning" /\ last_scan'.failed)
       => /\ last_scan'.returned = findings
          /\ all_findings' = all_findings \o findings
          /\ pc' \in {"scan", "report"}
          /\ exit_status' = "running"]_vars

C5_Witness ==
  /\ last_scan.failed
  /\ last_scan.returned # <<>>
  /\ pc \in {"scan", "report"}

\* C6: once the configuration is loaded and the client manager constructed,
\* the scanners run in the order EC2, RDS, EBS, each scan ending before the
\* next starts; a failure inside a scan does not stop the run; and
\* generate_report is called exactly once, after the three scans.
ScanOrder ==
  << <<"EC2", "start">>, <<"EC2", "end">>, <<"RDS", "start">>, <<"RDS", "end">>,
     <<"EBS", "start">>, <<"EBS", "end">>, <<"reporter", "generate_report">> >>

C6_ScanOrderThenOneReport ==
  /\ IsPrefix(events, ScanOrder)
  /\ report.format # "none" => events = ScanOrder
  /\ (aws_client = "ready" /\ report.format = "none")
       => (pc \in {"scan", "scanning", "report"} /\ exit_status = "running" /\ ENABLED Next)
  /\ (aws_client = "ready" /\ pc \in {"done", "exit"}) => events = ScanOrder

C6_Witness ==
  /\ last_scan.kind = "EC2"
  /\ last_scan.failed
  /\ events = SubSeq(ScanOrder, 1, 3)

\* C7: get_cloudwatch_metrics never raises: a failure while getting the
\* client or fetching or reading the datapoints gives an empty list, and the
\* analysis of the resource goes on with its remaining rules.
C7_MetricsNeverRaise ==
  ev_kind # "none" =>
    /\ \A name \in DOMAIN ev_metrics :
         LET got == get_cloudwatch_metrics(ev_metrics[name])
         IN  /\ ~got.raised
             /\ ev_metrics[name].kind # "ok" => got.values = <<>>
    /\ ev_resource.has_keys => ~ev_result.raised
    /\ (ev_kind = "RDS" /\ ev_result.fetched # <<>>)
         => ev_result.fetched = <<"CPUUtilization", "DatabaseConnections">>
    /\ (ev_kind = "EBS" /\ ev_result.fetched # <<>>)
         => ev_result.fetched = <<"VolumeReadOps", "VolumeWriteOps">>

C7_Witness ==
  /\ Evaluated("RDS")
  /\ ev_metrics.CPUUtilization = Failure("client_error")
  /\ ev_metrics.DatabaseConnections = Ok(<<0>>)
  /\ ~ev_result.raised
  /\ Len(ev_result.findings) = 1
  /\ ev_result.findings[1].issue_type = "low_connection_count"

\* C8: when the configuration file cannot be loaded, main() exits with
\* status 1 before a client manager exists, a scanner runs or a report is
\* written.
C8_MalformedConfigExitsFirst ==
  config_file \in MalformedFiles =>
    /\ pc = "exit"
    /\ exit_status = "1"
    /\ aws_client = "none"
    /\ events = <<>>
    /\ report = NoReport
    /\ ~summary_logged

C8_Witness ==
  /\ config_file.kind = "yaml_error"
  /\ pc = "exit"
  /\ exit_status = "1"

\* C9: when the reporter fails to write the report, for JSON and for HTML,
\* main() exits with status 1 and the summary is neither logged nor printed.
C9_ReportFailureIsFatal ==
  (report.format # "none" /\ ~report.write_ok) =>
    /\ pc = "exit"
    /\ exit_status = "1"
    /\ ~summary_logged
    /\ report.written = <<>>

C9_Witness ==
  /\ report.format = "json"
  /\ ~report.write_ok
  /\ Len(report.given[1].findings) > 0
  /\ exit_status = "1"

\* the statistic a rule compares with its threshold
Statistic(rule, values, scanner_config) ==
  IF rule = "ebs_ops"
  THEN DailyAvgOps(SumSeq(values), Get(scanner_config, "days_to_check", 7))
  ELSE Mean(values)

\* C10: for each utilization rule and threshold, of two statistic values
\* a <= b that both give a finding, a gets a severity at least as high as b
\* (low < medium < high).
C10_SeverityMonotonic ==
  (/\ sev_cmp.rule # "none"
   /\ sev_cmp.found_a # <<>>
   /\ sev_cmp.found_b # <<>>
   /\ FracLeq(Statistic(sev_cmp.rule, sev_cmp.a, sev_cmp.config),
              Statistic(sev_cmp.rule, sev_cmp.b, sev_cmp.config)))
  => SeverityRank(sev_cmp.found_a[1].severity) >= SeverityRank(sev_cmp.found_b[1].severity)

C10_Witness ==
  /\ sev_cmp.rule = "ec2_cpu"
  /\ sev_cmp.a = <<0, 1>>
  /\ sev_cmp.b = <<2>>
  /\ sev_cmp.found_a # <<>>
  /\ sev_cmp.found_b # <<>>
  /\ sev_cmp.found_a[1].severity = "high"
  /\ sev_cmp.found_b[1].severity = "medium"

\* C11: a stopped EC2 instance that no exclude_tags entry matches and whose
\* type is not in exclude_instance_types gets exactly one finding: issue type
\* stopped_instance, severity medium, monthly_savings = hourly rate of the
\* instance type (the fallback rate for a type outside the table) times 730;
\* no metric is fetched for it.
C11_StoppedInstanceOneFinding ==
  (/\ Evaluated("EC2")
   /\ ev_resource.State = "stopped"
   /\ ~should_exclude_resource(ev_resource.Tags, ev_config)
   /\ ~InList(ev_resource.InstanceType, Get(ev_config, "exclude_instance_types", <<>>)))
  => /\ ~ev_result.raised
     /\ ev_result.fetched = <<>>
     /\ Len(ev_result.findings) = 1
     /\ ev_result.findings[1].resource_id = ev_resource.InstanceId
     /\ ev_result.findings[1].issue_type = "stopped_instance"
     /\ ev_result.findings[1].severity = "medium"
     /\ ev_result.findings[1].monthly_savings =
          730 * (CASE ev_resource.InstanceType = "t2.micro" -> 116
                   [] ev_resource.InstanceType = "t2.nano" -> 500
                   [] ev_resource.InstanceType = "c5.large" -> 500
                   [] ev_resource.InstanceType = "m5.large" -> 960)

C11_Witness ==
  /\ Evaluated("EC2")
  /\ ev_resource.State = "stopped"
  /\ ev_resource.InstanceType = "t2.micro"
  /\ ev_resource.Tags = <<Tag("env", "dev")>>
  /\ ev_config = ConfigLoader_load(CustomFile).config.ec2
  /\ ev_metrics.CPUUtilization = Ok(<<0>>)
  /\ Len(ev_result.findings) = 1
  /\ ev_result.findings[1].monthly_savings = 84680

\* the values a metric request delivered to a rule: empty after a failure
Delivered(outcome) == IF outcome.kind = "ok" THEN outcome.values ELSE <<>>
\* sum/len of a non-empty sequence is below n
MeanBelow(values, n) == values # <<>> /\ SumSeq(values) < n * Len(values)
FindingsOfIssue(fs, issue_type) == SelectSeq(fs, LAMBDA f : f.issue_type = issue_type)

\* C12: for an available RDS instance that passes the engine gate and the age
\* gate, the CPU rule and the connection rule are evaluated independently:
\* low_cpu_utilization is emitted exactly when the CPU sequence is non-empty
\* with mean below cpu_threshold (high if mean < 2, else medium),
\* low_connection_count exactly when the connection sequence is non-empty with
\* mean below connection_threshold (high if mean < 1, else medium); the result
\* is the CPU rule's findings followed by the connection rule's, so two
\* findings, CPU first, when both hold.
C12_RdsRulesIndependent ==
  (/\ Evaluated("RDS")
   /\ ev_resource.DBInstanceStatus = "available"
   /\ ~InList(ev_resource.Engine, Get(ev_config, "exclude_engines", <<>>))
   /\ ~(ev_resource.has_create_time
        /\ ev_resource.age_days < Get(ev_config, "minimum_age_days", 7)))
  => LET cpu_values == Delivered(ev_metrics.CPUUtilization)
         connection_values == Delivered(ev_metrics.DatabaseConnections)
         cpu_low == MeanBelow(cpu_values, Get(ev_config, "cpu_threshold", 10))
         conn_low == MeanBelow(connection_values, Get(ev_config, "connection_threshold", 5))
         cpu_found == FindingsOfIssue(ev_result.findings, "low_cpu_utilization")
         conn_found == FindingsOfIssue(ev_result.findings, "low_connection_count")
     IN  /\ ~ev_result.raised
         /\ ev_result.findings = cpu_found \o conn_found
         /\ Len(cpu_found) = (IF cpu_low THEN 1 ELSE 0)
         /\ Len(conn_found) = (IF conn_low THEN 1 ELSE 0)
         /\ cpu_low => cpu_found[1].severity =
                         (IF MeanBelow(cpu_values, 2) THEN "high" ELSE "medium")
         /\ conn_low => conn_found[1].severity =
                          (IF MeanBelow(connection_values, 1) THEN "high" ELSE "medium")

C12_Witness ==
  /\ Evaluated("RDS")
  /\ ev_resource.DBInstanceStatus = "available"
  /\ ev_resource.has_create_time
  /\ ev_resource.age_days = 7
  /\ ev_metrics.CPUUtilization = Ok(<<2, 3>>)
  /\ ev_metrics.DatabaseConnections = Ok(<<0>>)
  /\ Len(ev_result.findings) = 2
  /\ ev_result.findings[1].issue_type = "low_cpu_utilization"
  /\ ev_result.findings[1].severity = "medium"
  /\ ev_result.findings[2].issue_type = "low_connection_count"
  /\ ev_result.findings[2].severity = "high"

\* C13: an unattached volume (state available) whose type is in
\* include_volume_types and that no exclude_tags entry matches gets exactly
\* one finding: issue type unattached_volume, monthly_savings = size in GB
\* times the per-GB rate of the volume type, severity high when the whole days
\* since creation exceed 30 and medium otherwise (30 days exactly, or no
\* creation time); no metric is fetched.
C13_UnattachedVolumeOneFinding ==
  (/\ Evaluated("EBS")
   /\ ev_resource.State = "available"
   /\ ~should_exclude_resource(ev_resource.Tags, ev_config)
   /\ InList(ev_resource.VolumeType,
             Get(ev_config, "include_volume_types", <<"gp2", "gp3", "io1", "io2">>)))
  => /\ ~ev_result.raised
     /\ ev_result.fetched = <<>>
     /\ Len(ev_result.findings) = 1
     /\ ev_result.findings[1].resource_id = ev_resource.VolumeId
     /\ ev_result.findings[1].issue_type = "unattached_volume"
     /\ ev_result.findings[1].monthly_savings =
          ev_resource.Size * (CASE ev_resource.VolumeType = "gp2" -> 1000
                                [] ev_resource.VolumeType = "io1" -> 1250)
     /\ ev_result.findings[1].severity =
          (IF ev_resource.has_create_time /\ ev_resource.age_days > 30
           THEN "high" ELSE "medium")

C13_Witness ==
  /\ Evaluated("EBS")
  /\ ev_resource.State = "available"
  /\ ev_resource.VolumeType = "io1"
  /\ ev_resource.has_create_time
  /\ ev_resource.age_days = 30
  /\ Len(ev_result.findings) = 1
  /\ ev_result.findings[1].severity = "medium"
  /\ ev_result.findings[1].monthly_savings = 125000

RECURSIVE Concat(_)
\* the lists of a sequence of lists, one after the other
Concat(lists) == IF lists = <<>> THEN <<>> ELSE Head(lists) \o Concat(Tail(lists))

\* C15: the findings of the report are the list the EC2 scan returned, then
\* the list the RDS scan returned, then the list the EBS scan returned, each
\* in the order the scanner returned it; nothing is dropped, reordered,
\* merged or deduplicated (two findings for one resource are both there).
C15_ReportIsConcatenation ==
  /\ all_findings = Concat(scan_results)
  /\ Len(scan_results) <= Len(scanners)
  /\ \A i \in 1..Len(scan_results) : \A j \in 1..Len(scan_results[i]) :
       scan_results[i][j].resource_type = scanners[i]
  /\ report.given # <<>> =>
       /\ Len(scan_results) = 3
       /\ report.given[1].findings = scan_results[1] \o scan_results[2] \o scan_results[3]

C15_Witness ==
  /\ report.given # <<>>
  /\ Len(scan_results[1]) = 1
  /\ Len(scan_results[2]) = 2
  /\ scan_results[3] = <<>>
  /\ scan_results[2][1].resource_id = scan_results[2][2].resource_id
  /\ scan_results[2][1].issue_type = "low_cpu_utilization"
  /\ scan_results[2][2].issue_type = "low_connection_count"
  /\ Len(report.given[1].findings) = 3

\* the value the loaded document gives a key of a section, if it gives one
InDocument(section, key) ==
  /\ section \in DOMAIN cl_file.document
  /\ key \in DOMAIN cl_file.document[section]
GivenOrDefault(section, key) ==
  IF InDocument(section, key) THEN cl_file.document[section][key]
  ELSE _get_default_config[section][key]
Nearest(value, low, high) == IF value > high THEN high ELSE IF value < low THEN low ELSE value
DaysClamped ==
  \A section \in {"ec2", "rds", "ebs"} :
    /\ cl_result.config[section].days_to_check \in 1..90
    /\ cl_result.config[section].days_to_check =
         Nearest(GivenOrDefault(section, "days_to_check"), 1, 90)

\* C16 as claimed: after load of an existing document of numeric values,
\* every threshold of every kind (cpu_threshold, connection_threshold,
\* iops_threshold) is at most 100 and every days_to_check is in 1..90, an
\* out-of-range value being replaced by the nearest bound; load does not fail.
C16_EveryThresholdAtMost100 ==
  cl_file.kind = "ok" =>
    /\ ~cl_result.raised
    /\ cl_result.config.ec2.cpu_threshold <= 100
    /\ cl_result.config.rds.cpu_threshold <= 100
    /\ cl_result.config.rds.connection_threshold <= 100
    /\ cl_result.config.ebs.iops_threshold <= 100
    /\ DaysClamped

\* C16 as amended: load of an existing document of numeric values does not
\* fail; the cpu_threshold of ec2 and of rds is at most 100, a larger value
\* being replaced by 100 and any other kept; every days_to_check of ec2, rds
\* and ebs is in 1..90, a value outside being replaced by the nearest bound;
\* connection_threshold and iops_threshold are returned as given, whatever
\* their value.
C16_CpuAndDaysClamped ==
  cl_file.kind = "ok" =>
    /\ ~cl_result.raised
    /\ \A section \in {"ec2", "rds"} :
         /\ cl_result.config[section].cpu_threshold <= 100
         /\ cl_result.config[section].cpu_threshold =
              (IF GivenOrDefault(section, "cpu_threshold") > 100 THEN 100
               ELSE GivenOrDefault(section, "cpu_threshold"))
    /\ DaysClamped
    /\ cl_result.config.rds.connection_threshold = GivenOrDefault("rds", "connection_threshold")
    /\ cl_result.config.ebs.iops_threshold = GivenOrDefault("ebs", "iops_threshold")

C16_Witness ==
  /\ cl_file.kind = "ok"
  /\ InDocument("rds", "cpu_threshold")
  /\ cl_file.document.rds.cpu_threshold = 101
  /\ InDocument("rds", "days_to_check")
  /\ cl_file.document.rds.days_to_check = 0
  /\ InDocument("rds", "connection_threshold")
  /\ cl_file.document.rds.connection_threshold = MaxConfigValue
  /\ ~cl_result.raised
  /\ cl_result.config.rds.cpu_threshold = 100
  /\ cl_result.config.rds.days_to_check = 1
  /\ cl_result.config.rds.connection_threshold = MaxConfigValue

\* the value _validate_thresholds leaves for a key that held value
Clamped(section, key, value) ==
  IF key = "cpu_threshold" /\ section \in {"ec2", "rds"}
  THEN (IF value > 100 THEN 100 ELSE value)
  ELSE IF key = "days_to_check" /\ section \in {"ec2", "rds", "ebs"}
  THEN Nearest(value, 1, 90)
  ELSE value

\* load of a file of one of the given kinds returns a configuration that has
\* every section and key of the defaults and of the document, a key of the
\* document with the document's value, any other with the default value, each
\* as _validate_thresholds leaves it
LayersResolved(kinds) ==
  cl_file.kind \in kinds =>
    /\ ~cl_result.raised
    /\ DOMAIN cl_result.config = DOMAIN _get_default_config \cup DOMAIN cl_file.document
    /\ \A section \in DOMAIN _get_default_config :
         /\ DOMAIN _get_default_config[section] \subseteq DOMAIN cl_result.config[section]
         /\ \A key \in DOMAIN _get_default_config[section] :
              cl_result.config[section][key] =
                Clamped(section, key, GivenOrDefault(section, key))
    /\ \A section \in DOMAIN cl_file.document :
         /\ DOMAIN cl_file.document[section] \subseteq DOMAIN cl_result.config[section]
         /\ \A key \in DOMAIN cl_file.document[section] :
              cl_result.config[section][key] =
                Clamped(section, key, cl_file.document[section][key])

\* C17: load resolves the configuration in layers.  For a file that does not
\* exist it returns exactly the built-in defaults (ec2 cpu_threshold 5, rds
\* cpu_threshold 10, sections ec2, rds and ebs present) without error.  For a
\* file that exists (a mapping, or an empty file: both are well-formed YAML)
\* the result has every section and key of the defaults, a key given in the
\* file keeps the file's value unless clamped, and a key or section missing
\* from the file takes the default value.
C17_LayeredResolution ==
  /\ cl_file.kind = "missing" =>
       /\ ~cl_result.raised
       /\ cl_result.config = _get_default_config
       /\ {"ec2", "rds", "ebs"} \subseteq DOMAIN cl_result.config
       /\ cl_result.config.ec2.cpu_threshold = 5
       /\ cl_result.config.rds.cpu_threshold = 10
  /\ LayersResolved({"ok", "empty"})

\* a region that was given (argument) or set (manager): not None, not empty
Given(o) == o # <<>> /\ o # <<"">>

\* C18: get_client resolves the client region as the region argument if
\* given, else the manager's region if set, else us-east-1 (an empty string
\* counts as not given); in local mode every client is created with
\* endpoint_url http://localhost:4566, outside local mode no endpoint_url is
\* passed.
C18_RegionAndEndpoint ==
  /\ \A i \in 1..Len(cm_calls) :
       cm_calls[i].endpoint_url =
         (IF cm_manager.local_mode THEN <<"http://localhost:4566">> ELSE <<>>)
  /\ (cm_last.n > 0 /\ ~cm_last.raised) =>
       LET made == cm_last.client[1].created_by
       IN  /\ made.service_name = cm_last.service_name
           /\ made.region_name =
                (IF Given(cm_last.region) THEN cm_last.region[1]
                 ELSE IF Given(cm_manager.region) THEN cm_manager.region[1]
                 ELSE "us-east-1")
           /\ made.endpoint_url = <<"http://localhost:4566">> <=> cm_manager.local_mode
           /\ made.endpoint_url = <<>> <=> ~cm_manager.local_mode
  /\ (cm_last.n > 0 /\ (cm_last.created \/ cm_last.raised)) =>
       /\ cm_calls # <<>>
       /\ cm_calls[Len(cm_calls)].service_name = cm_last.service_name
       /\ cm_calls[Len(cm_calls)].region_name =
            (IF Given(cm_last.region) THEN cm_last.region[1]
             ELSE IF Given(cm_manager.region) THEN cm_manager.region[1]
             ELSE "us-east-1")

C18_Witness ==
  /\ cm_manager.local_mode
  /\ cm_manager.region = <<"us-west-2">>
  /\ cm_last.n = 2
  /\ cm_last.region = <<"eu-west-1">>
  /\ cm_last.created
  /\ cm_last.client[1].created_by.region_name = "eu-west-1"
  /\ cm_last.client[1].created_by.endpoint_url = <<"http://localhost:4566">>
  /\ Len(cm_calls) = 2
  /\ cm_calls[1].region_name = "us-west-2"

\* C19: every finding a scanner creates, for a resource of non-negative size
\* under any configuration, has monthly_savings >= 0 and a severity among
\* low, medium and high.
C19_SavingsNonNegativeSeverityKnown ==
  \A i \in 1..Len(ev_result.findings) :
    /\ ev_result.findings[i].monthly_savings >= 0
    /\ ev_result.findings[i].severity \in {"low", "medium", "high"}

C19_Witness ==
  /\ Evaluated("EBS")
  /\ ev_resource.State = "in-use"
  /\ ev_resource.Size = 0
  /\ ev_metrics.VolumeReadOps = Ok(<<0>>)
  /\ Len(ev_result.findings) = 1
  /\ ev_result.findings[1].issue_type = "low_volume_utilization"
  /\ ev_result.findings[1].monthly_savings = 0
  /\ ev_result.findings[1].severity = "medium"

\* the value a scanner's configuration gives a key, or the stated default
Configured(key, default) ==
  IF key \in DOMAIN sev_cmp.config THEN sev_cmp.config[key] ELSE default
\* the threshold of the compared rule, with the claimed defaults
RuleThreshold ==
  CASE sev_cmp.rule = "ec2_cpu" -> Configured("cpu_threshold", 5)
    [] sev_cmp.rule = "rds_cpu" -> Configured("cpu_threshold", 10)
    [] sev_cmp.rule = "rds_connections" -> Configured("connection_threshold", 5)
    [] sev_cmp.rule = "ebs_ops" -> Configured("iops_threshold", 1)
LoaderDefaults ==
  /\ _get_default_config.ec2.cpu_threshold = 5
  /\ _get_default_config.rds.cpu_threshold = 10
  /\ _get_default_config.ebs.iops_threshold = 1

\* C20 as claimed: for each kind the statistic compared with the threshold is
\* the arithmetic mean of the fetched sample sequence: a resource in a
\* measurable state with a non-empty sequence gets a low-utilization finding
\* exactly when that mean is strictly below the threshold; the defaults are 5
\* (EC2 CPU), 10 (RDS CPU) and 1 (EBS operations per day).
C20_MeanBelowThreshold ==
  /\ LoaderDefaults
  /\ sev_cmp.rule \in {"ec2_cpu", "rds_cpu", "ebs_ops"} =>
       (sev_cmp.found_a # <<>> <=> MeanBelow(sev_cmp.a, RuleThreshold))

\* C20 as amended: for EC2 and RDS the statistic is the arithmetic mean of
\* the CPU samples; for EBS it is the total of the read and write operation
\* samples divided by days_to_check (default 7), not their mean.  A resource
\* in a measurable state with a non-empty sequence gets a low-utilization
\* finding exactly when the statistic is strictly below the threshold, none
\* when it equals the threshold; the defaults are 5, 10 and 1.
C20_StatisticBelowThreshold ==
  /\ LoaderDefaults
  /\ sev_cmp.rule \in {"ec2_cpu", "rds_cpu"} =>
       (sev_cmp.found_a # <<>> <=> MeanBelow(sev_cmp.a, RuleThreshold))
  /\ sev_cmp.rule = "ebs_ops" =>
       /\ sev_cmp.found_a # <<>> <=>
            SumSeq(sev_cmp.a) < RuleThreshold * Configured("days_to_check", 7)
       /\ sev_cmp.found_both # <<>> <=>
            SumSeq(sev_cmp.a) + SumSeq(sev_cmp.b)
              < RuleThreshold * Configured("days_to_check", 7)

C20_Witness ==
  /\ sev_cmp.rule = "ebs_ops"
  /\ sev_cmp.config = <<>>
  /\ sev_cmp.a = <<3, 3>>
  /\ sev_cmp.b = <<0>>
  /\ ~MeanBelow(sev_cmp.a, 1)
  /\ sev_cmp.found_a # <<>>
  /\ sev_cmp.found_both # <<>>
  /\ sev_cmp.found_a[1].issue_type = "low_volume_utilization"

\* C21: a low_volume_utilization finding of an attached volume has severity
\* medium when the daily average of operations is exactly 0 and low otherwise,
\* and its monthly_savings is exactly half of size times the per-GB rate; the
\* low-utilization findings of EC2 and RDS instances carry the full estimate,
\* hourly rate times 730.
C21_EbsHalvedOthersFull ==
  \A i \in 1..Len(ev_result.findings) :
    LET f == ev_result.findings[i]
    IN  /\ f.issue_type = "low_volume_utilization" =>
             /\ 2 * f.monthly_savings =
                  ev_resource.Size * (CASE ev_resource.VolumeType = "gp2" -> 1000
                                        [] ev_resource.VolumeType = "io1" -> 1250)
             /\ f.severity =
                  (IF SumSeq(Delivered(ev_metrics.VolumeReadOps))
                        + SumSeq(Delivered(ev_metrics.VolumeWriteOps)) = 0
                   THEN "medium" ELSE "low")
        /\ (ev_kind = "EC2" /\ f.issue_type = "low_cpu_utilization") =>
             f.monthly_savings =
               730 * (CASE ev_resource.InstanceType = "t2.micro" -> 116
                        [] ev_resource.InstanceType = "t2.nano" -> 500
                        [] ev_resource.InstanceType = "c5.large" -> 500)
        /\ (ev_kind = "RDS" /\ f.issue_type \in {"low_cpu_utilization", "low_connection_count"}) =>
             f.monthly_savings =
               730 * (CASE ev_resource.DBInstanceClass = "db.t3.micro" -> 170
                        [] ev_resource.DBInstanceClass = "db.r5.large" -> 500)

C21_Witness ==
  /\ Evaluated("EBS")
  /\ ev_resource.State = "in-use"
  /\ ev_resource.VolumeType = "io1"
  /\ ev_resource.Size = 1
  /\ ev_metrics.VolumeReadOps = Ok(<<1>>)
  /\ ev_metrics.VolumeWriteOps = Ok(<<>>)
  /\ Len(ev_result.findings) = 1
  /\ ev_result.findings[1].severity = "low"
  /\ ev_result.findings[1].monthly_savings = 625

\* an EC2 instance of an excluded type, or a volume of a type that is not
\* included, gets an empty list and no metric is fetched
TypeExcludedEC2AndEBS ==
  /\ (/\ Evaluated("EC2")
      /\ InList(ev_resource.InstanceType, Get(ev_config, "exclude_instance_types", <<>>)))
       => ev_result = Return(<<>>, <<>>)
  /\ (/\ Evaluated("EBS")
      /\ ~InList(ev_resource.VolumeType,
                 Get(ev_config, "include_volume_types", <<"gp2", "gp3", "io1", "io2">>)))
       => ev_result = Return(<<>>, <<>>)

\* C22 as claimed: for every kind a resource whose size class is in the
\* kind's configured exclude list gets no findings: an EC2 instance whose
\* type is in exclude_instance_types, an RDS instance whose instance class is
\* in an exclude list of the rds section, a volume whose type is not among
\* include_volume_types; the list is empty and no metric is fetched.
C22_SizeClassExcludedNoFindings ==
  /\ TypeExcludedEC2AndEBS
  /\ (/\ Evaluated("RDS")
      /\ \/ InList(ev_resource.DBInstanceClass, Get(ev_config, "exclude_instance_types", <<>>))
         \/ InList(ev_resource.DBInstanceClass, Get(ev_config, "exclude_engines", <<>>)))
       => ev_result = Return(<<>>, <<>>)

\* C22 as amended: an EC2 instance whose type is in exclude_instance_types, an
\* RDS instance whose engine is in exclude_engines (the RDS scanner has no
\* exclusion by instance class) and a volume whose type is not among
\* include_volume_types get an empty list, and no metric is fetched.
C22_ExcludedTypeOrEngineNoFindings ==
  /\ TypeExcludedEC2AndEBS
  /\ (/\ Evaluated("RDS")
      /\ InList(ev_resource.Engine, Get(ev_config, "exclude_engines", <<>>)))
       => ev_result = Return(<<>>, <<>>)

C22_Witness ==
  /\ Evaluated("RDS")
  /\ ev_resource.DBInstanceStatus = "available"
  /\ ev_resource.Engine = "aurora"
  /\ ev_resource.has_create_time
  /\ ev_resource.age_days = 7
  /\ InList("aurora", Get(ev_config, "exclude_engines", <<>>))
  /\ ev_metrics.CPUUtilization = Ok(<<0>>)
  /\ ev_metrics.DatabaseConnections = Ok(<<0>>)
  /\ ev_result = Return(<<>>, <<>>)

\* C23: an available RDS instance whose age in whole days is below
\* minimum_age_days (default 7) gets no finding and no metric is fetched for
\* it; an instance whose age is the minimum or more (and whose engine is not
\* excluded) is evaluated: both metrics are fetched.
C23_MinimumAgeGate ==
  (/\ Evaluated("RDS")
   /\ ev_resource.DBInstanceStatus = "available"
   /\ ev_resource.has_create_time)
  => /\ ev_resource.age_days < Get(ev_config, "minimum_age_days", 7)
          => ev_result = Return(<<>>, <<>>)
     /\ (/\ ev_resource.age_days >= Get(ev_config, "minimum_age_days", 7)
         /\ ~InList(ev_resource.Engine, Get(ev_config, "exclude_engines", <<>>)))
          => /\ ~ev_result.raised
             /\ ev_result.fetched = <<"CPUUtilization", "DatabaseConnections">>
             /\ (MeanBelow(Delivered(ev_metrics.CPUUtilization),
                           Get(ev_config, "cpu_threshold", 10))
                   => HasIssue(ev_result.findings, "low_cpu_utilization"))

C23_Witness ==
  /\ Evaluated("RDS")
  /\ ev_resource.DBInstanceStatus = "available"
  /\ ev_resource.has_create_time
  /\ ev_resource.age_days = 7
  /\ ev_config.minimum_age_days = 7
  /\ ev_metrics.CPUUtilization = Ok(<<0>>)
  /\ ev_metrics.DatabaseConnections = Ok(<<0>>)
  /\ Len(ev_result.findings) = 2

\* the arguments and the result of the should_exclude_resource call
ExcludeCall == fn_call.name = "should_exclude_resource"
CallTags == fn_call.args.tags
CallExcludeTags ==
  IF "exclude_tags" \in DOMAIN fn_call.args.config
  THEN fn_call.args.config.exclude_tags ELSE <<>>

\* C24 as claimed: should_exclude_resource returns true exactly when some tag
\* matches some entry, a bare-key entry matching any tag with that key, a
\* key+value entry matching a tag whose key is equal and whose value equals
\* the entry's value by string equality without type coercion (an entry value
\* that is not a string equals no tag value); false with an empty exclude_tags
\* list or without tags.
C24_MatchWithoutCoercion ==
  ExcludeCall =>
    /\ fn_call.result <=>
         \E t \in 1..Len(CallTags) : \E e \in 1..Len(CallExcludeTags) :
           LET tag == CallTags[t]
               entry == CallExcludeTags[e]
           IN  IF entry.is_dict
               THEN \E i \in 1..Len(entry.items) :
                      /\ tag.Key = entry.items[i].key
                      /\ entry.items[i].value.type = "str"
                      /\ tag.Value = entry.items[i].value.repr
               ELSE tag.Key = entry.key
    /\ (CallTags = <<>> \/ CallExcludeTags = <<>>) => ~fn_call.result

\* C24 as amended: as claimed, except that the value of a key+value entry is
\* converted with str() before the comparison: the entry matches a tag whose
\* key is equal and whose value equals the text of the entry's value, so the
\* integer 1 matches the tag value "1".
C24_MatchWithStrOfEntryValue ==
  ExcludeCall =>
    /\ fn_call.result <=>
         \E t \in 1..Len(CallTags) : \E e \in 1..Len(CallExcludeTags) :
           LET tag == CallTags[t]
               entry == CallExcludeTags[e]
           IN  IF entry.is_dict
               THEN \E i \in 1..Len(entry.items) :
                      /\ tag.Key = entry.items[i].key
                      /\ tag.Value = entry.items[i].value.repr
               ELSE tag.Key = entry.key
    /\ (CallTags = <<>> \/ CallExcludeTags = <<>>) => ~fn_call.result

C24_Witness ==
  /\ ExcludeCall
  /\ CallTags = <<Tag("env", "dev"), Tag("tier", "1")>>
  /\ CallExcludeTags = <<DictTag("env", PyStr("prod")), DictTag("tier", PyInt("1"))>>
  /\ fn_call.result

\* the hourly rate the table gives a (kind, size class) pair, if any
InTable(resource_type, instance_type) ==
  /\ resource_type \in DOMAIN cost_map
  /\ instance_type \in DOMAIN cost_map[resource_type]

\* C25: the pricing estimate is total: for any resource kind and size class
\* calculate_cost_savings returns a number, the table's hourly rate times 730,
\* or the default rate times 730 when the pair is absent from the table;
\* _calculate_volume_cost returns size times the type's per-GB rate, or size
\* times the default per-GB rate for a volume type absent from its table.
C25_PricingTotal ==
  /\ fn_call.name = "calculate_cost_savings" =>
       LET a == fn_call.args
       IN  /\ fn_call.result \in Nat
           /\ InTable(a.resource_type, a.instance_type) =>
                fn_call.result = cost_map[a.resource_type][a.instance_type] * 730
           /\ ~InTable(a.resource_type, a.instance_type) =>
                fn_call.result = DefaultHourlyRate * 730
  /\ fn_call.name = "_calculate_volume_cost" =>
       LET a == fn_call.args
       IN  /\ fn_call.result \in Nat
           /\ a.volume_type \in DOMAIN pricing_per_gb =>
                fn_call.result = a.size_gb * pricing_per_gb[a.volume_type]
           /\ a.volume_type \notin DOMAIN pricing_per_gb =>
                fn_call.result = a.size_gb * DefaultPricePerGb

C25_Witness ==
  /\ fn_call.name = "calculate_cost_savings"
  /\ fn_call.args.resource_type = "lambda"
  /\ fn_call.args.instance_type = "t2.micro"
  /\ fn_call.result = 365000

\* the arguments and the result of the _generate_html call
HtmlCall == fn_call.name = "_generate_html"
ReportedFindings == fn_call.args.report_data.findings
Sections == fn_call.result.html.sections
\* the findings of one resource type, in the order of the report's list
OfType(fs, service) ==
  LET IsOfType(f) == f.resource_type = service IN SelectSeq(fs, IsOfType)
FirstIndexOfType(fs, service) ==
  CHOOSE i \in 1..Len(fs) :
    /\ fs[i].resource_type = service
    /\ \A j \in 1..(i - 1) : fs[j].resource_type # service

ResolvedRegion(region) ==
  IF Given(region) THEN region[1]
  ELSE IF Given(cm_manager.region) THEN cm_manager.region[1]
  ELSE "us-east-1"
\* the cached clients that were made for a (service name, region) pair
CachedFor(clients, service_name, region_name) ==
  {clients[k] : k \in {key \in DOMAIN clients :
                         /\ clients[key].created_by.service_name = service_name
                         /\ clients[key].created_by.region_name = region_name}}
\* every cached client comes from one session.client call that was made for
\* its pair, no two cached clients come from calls for the same pair, and no
\* session.client call for the pair follows the one that made a cached client
OneClientPerPair ==
  /\ \A k \in DOMAIN cm_clients :
       /\ cm_clients[k].call \in 1..Len(cm_calls)
       /\ cm_calls[cm_clients[k].call] = cm_clients[k].created_by
       /\ \A j \in (cm_clients[k].call + 1)..Len(cm_calls) :
            ~(/\ cm_calls[j].service_name = cm_clients[k].created_by.service_name
              /\ cm_calls[j].region_name = cm_clients[k].created_by.region_name)
  /\ \A k1, k2 \in DOMAIN cm_clients :
       (/\ cm_clients[k1].created_by.service_name = cm_clients[k2].created_by.service_name
        /\ cm_clients[k1].created_by.region_name = cm_clients[k2].created_by.region_name)
         => cm_clients[k1] = cm_clients[k2]

\* C27 as claimed: over any sequence of get_client calls on one manager,
\* session.client is invoked at most once per (service name, resolved region)
\* pair.
C27_InvokedAtMostOncePerPair ==
  \A i, j \in 1..Len(cm_calls) :
    (/\ cm_calls[i].service_name = cm_calls[j].service_name
     /\ cm_calls[i].region_name = cm_calls[j].region_name) => i = j

\* C27 as amended: over any sequence of get_client calls on one manager,
\* session.client creates at most one client per (service name, resolved region) pair: once
\* a client was created for the pair, a call for the pair returns that same
\* client and session.client is not invoked; a call whose creation raises
\* leaves the cache unchanged, and a call for a pair without a cached client
\* invokes session.client (again, if an earlier creation raised).
C27_OneCreationPerPair ==
  [][(cm_last'.n = cm_last.n + 1) =>
       LET service_name == cm_last'.service_name
           region_name == ResolvedRegion(cm_last'.region)
           cached == CachedFor(cm_clients, service_name, region_name)
       IN  /\ cached # {} =>
                /\ cm_calls' = cm_calls
                /\ cm_clients' = cm_clients
                /\ ~cm_last'.raised
                /\ cm_last'.client \in {<<c>> : c \in cached}
           /\ cached = {} =>
                /\ Len(cm_calls') = Len(cm_calls) + 1
                /\ cm_calls'[Len(cm_calls')].service_name = service_name
                /\ cm_calls'[Len(cm_calls')].region_name = region_name
                /\ cm_last'.raised => cm_clients' = cm_clients
                /\ ~cm_last'.raised =>
                     /\ cm_last'.created
                     /\ CachedFor(cm_clients', service_name, region_name)
                          = {cm_last'.client[1]}
           /\ OneClientPerPair']_vars

C27_Witness ==
  /\ cm_manager.region = <<"us-west-2">>
  /\ cm_last.n = 3
  /\ cm_last.region = <<"us-west-2">>
  /\ ~cm_last.raised
  /\ ~cm_last.created
  /\ Len(cm_calls) = 2
  /\ cm_calls[1] = cm_calls[2]
  /\ cm_last.client[1].call = 2
  /\ DOMAIN cm_clients = {ClientKey(cm_last.service_name, "us-west-2")}

\* the id of the resource under analysis
ResourceId ==
  CASE ev_kind = "EC2" -> ev_resource.InstanceId
    [] ev_kind = "RDS" -> ev_resource.DBInstanceIdentifier
    [] ev_kind = "EBS" -> ev_resource.VolumeId

\* C28: the analysis of one EC2 instance returns at most one finding, a
\* stopped_instance or a low_cpu_utilization finding; the analysis of one EBS
\* volume returns at most one finding, an unattached_volume or a
\* low_volume_utilization finding; the analysis of one RDS instance returns at
\* most two findings, of different issue types when there are two; and every
\* finding's resource_id is the id of the resource analysed.
C28_FindingCountsBounded ==
  LET fs == ev_result.findings
  IN  /\ Evaluated("EC2") =>
           /\ Len(fs) <= 1
           /\ \A i \in 1..Len(fs) :
                fs[i].issue_type \in {"stopped_instance", "low_cpu_utilization"}
      /\ Evaluated("EBS") =>
           /\ Len(fs) <= 1
           /\ \A i \in 1..Len(fs) :
                fs[i].issue_type \in {"unattached_volume", "low_volume_utilization"}
      /\ Evaluated("RDS") =>
           /\ Len(fs) <= 2
           /\ \A i, j \in 1..Len(fs) : i # j => fs[i].issue_type # fs[j].issue_type
      /\ (ev_kind \in {"EC2", "EBS", "RDS"} /\ ev_resource.has_keys) =>
           \A i \in 1..Len(fs) : fs[i].resource_id = ResourceId
      /\ (ev_kind \in {"EC2", "EBS", "RDS"} /\ ~ev_resource.has_keys) => fs = <<>>

C28_Witness ==
  /\ Evaluated("RDS")
  /\ Len(ev_result.findings) = 2
  /\ ev_result.findings[1].issue_type = "low_cpu_utilization"
  /\ ev_result.findings[2].issue_type # "low_cpu_utilization"
  /\ ev_result.findings[1].resource_id = ev_resource.DBInstanceIdentifier
  /\ ev_result.findings[2].resource_id = ev_resource.DBInstanceIdentifier

\* an attached volume that passes the tag gate and the volume-type gate
AttachedVolumeChecked ==
  /\ Evaluated("EBS")
  /\ ev_resource.State = "in-use"
  /\ ~should_exclude_resource(ev_resource.Tags, ev_config)
  /\ InList(ev_resource.VolumeType,
            Get(ev_config, "include_volume_types", <<"gp2", "gp3", "io1", "io2">>))

\* C29: for an attached volume both operation metrics are fetched; when at
\* least one of the two sequences is non-empty the rule is evaluated with an
\* empty (missing or failed) sequence counting as zero operations: the volume
\* gets its low_volume_utilization finding exactly when the total of both
\* sequences divided by days_to_check is below iops_threshold; it gets no
\* finding for lack of data exactly when both sequences are empty.
C29_EbsRuleOnEitherSequence ==
  AttachedVolumeChecked =>
    LET read_ops == Delivered(ev_metrics.VolumeReadOps)
        write_ops == Delivered(ev_metrics.VolumeWriteOps)
        days == IF "days_to_check" \in DOMAIN ev_config THEN ev_config.days_to_check ELSE 7
        threshold == IF "iops_threshold" \in DOMAIN ev_config
                     THEN ev_config.iops_threshold ELSE 1
    IN  /\ ~ev_result.raised
        /\ ev_result.fetched = <<"VolumeReadOps", "VolumeWriteOps">>
        /\ days > 0
        /\ (read_ops = <<>> /\ write_ops = <<>>) => ev_result.findings = <<>>
        /\ (read_ops # <<>> \/ write_ops # <<>>) =>
             (HasIssue(ev_result.findings, "low_volume_utilization")
                <=> SumSeq(read_ops) + SumSeq(write_ops) < threshold * days)

C29_Witness ==
  /\ AttachedVolumeChecked
  /\ ev_metrics.VolumeReadOps = Failure("api_error")
  /\ ev_metrics.VolumeWriteOps = Ok(<<MaxSample>>)
  /\ "days_to_check" \in DOMAIN ev_config
  /\ ev_config.days_to_check = 7
  /\ Len(ev_result.findings) = 1
  /\ ev_result.findings[1].severity = "low"

\* the instance under analysis, had it a creation time of the minimum age
OldEnoughCopy ==
  [ev_resource EXCEPT !.has_create_time = TRUE,
                      !.age_days = IF "minimum_age_days" \in DOMAIN ev_config
                                   THEN ev_config.minimum_age_days ELSE 7]

\* C30: an available RDS instance without InstanceCreateTime is not stopped by
\* the minimum-age gate: its analysis gives what the analysis of the same
\* instance with a creation time of the minimum age gives; unless its engine
\* is excluded both metrics are fetched, and it gets the CPU finding exactly
\* when the CPU samples are non-empty with mean below cpu_threshold and the
\* connection finding exactly when the connection samples are non-empty with
\* mean below connection_threshold.
C30_NoCreateTimePassesAgeGate ==
  (/\ Evaluated("RDS")
   /\ ev_resource.DBInstanceStatus = "available"
   /\ ~ev_resource.has_create_time)
  => /\ ev_result = _analyze_db_instance(OldEnoughCopy, ev_metrics, ev_config)
     /\ ~InList(ev_resource.Engine, Get(ev_config, "exclude_engines", <<>>)) =>
          /\ ~ev_result.raised
          /\ ev_result.fetched = <<"CPUUtilization", "DatabaseConnections">>
          /\ HasIssue(ev_result.findings, "low_cpu_utilization")
               <=> MeanBelow(Delivered(ev_metrics.CPUUtilization),
                             Get(ev_config, "cpu_threshold", 10))
          /\ HasIssue(ev_result.findings, "low_connection_count")
               <=> MeanBelow(Delivered(ev_metrics.DatabaseConnections),
                             Get(ev_config, "connection_threshold", 5))

C30_Witness ==
  /\ Evaluated("RDS")
  /\ ev_resource.DBInstanceStatus = "available"
  /\ ~ev_resource.has_create_time
  /\ ev_metrics.CPUUtilization = Ok(<<MaxSample>>)
  /\ ev_metrics.DatabaseConnections = Ok(<<0>>)
  /\ ev_result.fetched = <<"CPUUtilization", "DatabaseConnections">>
  /\ Len(ev_result.findings) >= 1
  /\ HasIssue(ev_result.findings, "low_connection_count")

====
